---------------------------- MODULE Spec2Model ----------------------------
(* A model of the task scheduler of obsidian-task-manager (src/src/main.ts): *)
(* daily notes are sequences of lines, a line is the parse of its text into  *)
(* quote prefix, indentation, checkbox marker, time block, text, the inline  *)
(* tags in the order they stand on the line, and trailing whitespace.        *)
EXTENDS Integers, Sequences, FiniteSets, TLC

(***************************************************************************)
(* Bounds of the model                                                     *)
(***************************************************************************)
NDates == 3        \* daily notes 1..NDates, ordered as their dates are
MaxTasks == 5      \* a document is not grown beyond this many checkbox lines
MaxCalls == 3      \* calls made, per behaviour
MaxMoves == 7      \* moves of the live copy, per behaviour of SpecCycle

Dates == 1..NDates
Ids == {1}         \* the tokens of [id::...] tags
NoDate == 0        \* "no such tag" / "no such file"
NoId == 0          \* extractId's null

VARIABLES files, docs, notes, ret, calls, fwd, undo, plugin

vars == <<files, docs, notes, ret, calls, fwd, undo, plugin>>

\* The plugin object after onload: its two guard flags, the Map of the
\* debounce timers of the task notes (path -> handle), the timeouts that
\* are pending, and the 'modify' notifications of the vault that are not
\* delivered yet.  quiet is a clock of the model: the time since the last
\* notification of a task note that the handler took up.
Loaded ==
  [isProcessing |-> FALSE, taskNoteSyncing |-> FALSE,
   taskNoteSyncTimers |-> [p \in {} |-> 0],
   timeouts |-> {}, modified |-> {}, quiet |-> [p \in {} |-> 0],
   syncs |-> {}, widget |-> [src |-> 0, line |-> 0, lineNum |-> 0, at |-> 0]]

(***************************************************************************)
(* Line grammar                                                            *)
(***************************************************************************)
\* A tag as it stands on a line: k is its kind, v the id or date it carries.
\*   "id" [id::v]  "parent" [parent::v]  "from" [< v]  "to" [> v]
\*   "lfrom" [sch_from::v]  "lto" [sch_to::v]
Tag(k, v) == [k |-> k, v |-> v]

\* A checkbox line "<tabs>- [mk] <time block> <txt> <tags><trailing space>",
\* prefixed by "> " when q (a line inside the archive callout).  Every tag
\* stands after one space; pad counts the spaces between the checkbox and
\* the first tag beyond that one.
TaskLine(ind, mk, tb, txt, tags, trail) ==
  [q |-> FALSE, kind |-> "task", ind |-> ind, mk |-> mk, tb |-> tb,
   txt |-> txt, tags |-> tags, trail |-> trail, pad |-> 0]

\* A line that is no checkbox line: "blank" (the empty line), "text",
\* "heading" (/^#/), "completed" (the "## Completed" heading), ...
Other(kind) ==
  [q |-> FALSE, kind |-> kind, ind |-> 0, mk |-> " ", tb |-> 0,
   txt |-> "", tags |-> <<>>, trail |-> FALSE, pad |-> 0]

Blank == Other("blank")

IsBlank(l) == l.kind = "blank" /\ ~l.q

\* TASK_PATTERN /^[\t]*- \[.\]/ : a quoted line does not start with tabs or "-"
IsTask(l) == l.kind = "task" /\ ~l.q

\* SUBTASK_PATTERN /^\t+- \[.\]/
IsSubtask(l) == IsTask(l) /\ l.ind >= 1

\* PARENT_TASK_PATTERN /^- \[.\]/
IsParentTask(l) == IsTask(l) /\ l.ind = 0

TagValues(l, k) == SelectSeq(l.tags, LAMBDA t: t.k = k)

\* line.match(/\[id::([^\]]+)\]/): the first id tag anywhere on the line
ExtractId(l) == IF TagValues(l, "id") = <<>> THEN NoId ELSE TagValues(l, "id")[1].v

\* new RegExp(`\\[id::\\s*${taskId}\\]`).test(line)
HasId(l, id) == \E i \in 1..Len(l.tags) : l.tags[i] = Tag("id", id)

\* a test that finds no tag
NeverHasTag(l, k, v) == FALSE

\* line.includes(`[k v]`)
HasTag(l, k, v) == \E i \in 1..Len(l.tags) : l.tags[i] = Tag(k, v)

\* line.replace(/^([\t]*- \[)[^\]](\])/, '$1' + m + '$2')
SetMarker(l, m) == IF IsTask(l) THEN [l EXCEPT !.mk = m] ELSE l

\* line.trimEnd() + ` [k v]`
AppendTag(l, k, v) == [l EXCEPT !.tags = Append(@, Tag(k, v)), !.trail = FALSE]

(***************************************************************************)
(* TaskScheduler: the line rewrites                                        *)
(***************************************************************************)
SchedulingKinds == {"from", "to", "lfrom", "lto"}

\* removeSchedulingTags: every [< D], [> D], [sch_from::..], [sch_to::..] and
\* the whitespace before it goes; whitespace after the last one stays.
RemoveSchedulingTags(l) ==
  [l EXCEPT !.tags = SelectSeq(@, LAMBDA t: t.k \notin SchedulingKinds),
            !.pad = IF l.tags # <<>> /\ l.tags[1].k \in SchedulingKinds THEN 0 ELSE @]

\* taskCopy.replace(/\s*\[parent::\s*[^\]]+\]/g, '')
RemoveParentTags(l) ==
  [l EXCEPT !.tags = SelectSeq(@, LAMBDA t: t.k # "parent"),
            !.pad = IF l.tags # <<>> /\ l.tags[1].k = "parent" THEN 0 ELSE @]

\* newLine.replace(/^([\t]*- \[.\]\s*)\d{1,2}:\d{2}\s*-\s*\d{1,2}:\d{2}\s*/, '$1')
StripTimeBlock(l) == IF IsTask(l) THEN [l EXCEPT !.tb = 0] ELSE l

\* the copy without its [< fromDate] tag
CopyWithoutFrom(l, fromDate) ==
  RemoveParentTags(RemoveSchedulingTags(SetMarker(l, " ")))

\* createScheduledTaskCopy(line, fromDate)
CreateScheduledTaskCopy(l, fromDate) ==
  AppendTag(RemoveParentTags(RemoveSchedulingTags(SetMarker(l, " "))), "from", fromDate)

\* the marked line without its [> toDate] tag
MarkWithoutTag(l, toDate) ==
  RemoveSchedulingTags(StripTimeBlock(SetMarker(l, ">")))

\* markTaskAsScheduled(line, toDate)
MarkTaskAsScheduled(l, toDate) ==
  AppendTag(RemoveSchedulingTags(StripTimeBlock(SetMarker(l, ">"))), "to", toDate)

\* the same rewrite without the reset of the marker
UpdateExistingCopyKeepMarker(l, fromDate) ==
  AppendTag(RemoveSchedulingTags(l), "from", fromDate)

\* the rewrite of the line found by id in the target (scheduleTask, 1888-1895)
UpdateExistingCopy(l, fromDate) ==
  AppendTag(RemoveSchedulingTags(SetMarker(l, " ")), "from", fromDate)

\* extractScheduledToDate: line.match(/\[>\s*(\d{4}-\d{2}-\d{2})\]/)
ExtractScheduledToDate(l) ==
  IF TagValues(l, "to") = <<>> THEN NoDate ELSE TagValues(l, "to")[1].v

\* isScheduledAway: /^[\t]*- \[>\]/
IsScheduledAway(l) == IsTask(l) /\ l.mk = ">"

\* subtaskLine.replace(/^([\t]*- \[)>(\])/, '$1 $2')
ResetMarker(l) == IF IsScheduledAway(l) THEN [l EXCEPT !.mk = " "] ELSE l

\* the reset that leaves the scheduling tags
ResetMarkerOnly(l) == ResetMarker(l)

\* resetScheduledTask(line)
ResetScheduledTask(l) == RemoveSchedulingTags(ResetMarker(l))

(***************************************************************************)
(* Documents: content.split('\n') and back                                 *)
(***************************************************************************)
\* The lines of doc whose index is in keep, in order (Array.splice / filter).
RECURSIVE KeepLines(_, _, _)
KeepLines(doc, keep, i) ==
  IF i > Len(doc) THEN <<>>
  ELSE (IF i \in keep THEN <<doc[i]>> ELSE <<>>) \o KeepLines(doc, keep, i + 1)

\* The index of the first line with the id, 0 when none has it.
FindById(doc, id) ==
  IF \E i \in 1..Len(doc) : HasId(doc[i], id)
  THEN CHOOSE i \in 1..Len(doc) :
         HasId(doc[i], id) /\ \A j \in 1..(i - 1) : ~HasId(doc[j], id)
  ELSE 0

\* The last line of the contiguous run of subtask lines after line n
\* (n itself when the next line is no subtask): the for loops that break at
\* the first non-subtask line.
RunEnd(doc, n) ==
  CHOOSE k \in n..Len(doc) :
    /\ \A j \in (n + 1)..k : IsSubtask(doc[j])
    /\ (k = Len(doc) \/ ~IsSubtask(doc[k + 1]))

\* content.trimEnd(): trailing empty lines and the last line's trailing
\* whitespace go; the empty content is the single empty line.
TrimEnd(doc) ==
  LET last == IF \E i \in 1..Len(doc) : ~IsBlank(doc[i])
              THEN CHOOSE i \in 1..Len(doc) :
                     ~IsBlank(doc[i]) /\ \A j \in (i + 1)..Len(doc) : IsBlank(doc[j])
              ELSE 0
  IN IF last = 0 THEN <<Blank>>
     ELSE [i \in 1..last |-> IF i = last THEN [doc[i] EXCEPT !.trail = FALSE] ELSE doc[i]]

\* content.replace(/\n{3,}/g, '\n\n'): of a run of empty lines between two
\* lines the first stays; of a run at the top the first two stay.
CollapseBlankLines(doc) ==
  KeepLines(doc, {i \in 1..Len(doc) :
                    ~IsBlank(doc[i]) \/ i <= 2 \/ ~IsBlank(doc[i - 1])}, 1)

(***************************************************************************)
(* TaskArchiver.archiveContent                                             *)
(***************************************************************************)
\* the callout header "> [!archived]- Archived" (ARCHIVE_CALLOUT_START)
ArchiveHeader == Other("archhdr")

IsArchiveHeader(l) == l.kind = "archhdr"

\* ARCHIVE_LINE /^> /
IsArchiveLine(l) == l.q

\* the test that takes the calendar events at the left margin only
IsTopCalendarEvent(l) == IsTask(l) /\ l.mk = "c" /\ l.ind = 0

\* CALENDAR_EVENT_PATTERN /^[\t]*- \[c\]/
IsCalendarEvent(l) == IsTask(l) /\ l.mk = "c"

\* the test that takes the completed lines only
IsDoneState(l) == IsTask(l) /\ l.mk \in {"x", "X"}

\* ARCHIVE_STATES /^[\t]*- \[[xX>\-]\]/
IsArchiveState(l) == IsTask(l) /\ l.mk \in {"x", "X", ">", "-"}

\* ACTIVE_STATES /^[\t]*- \[[ \/c]\]/
IsActiveState(l) == IsTask(l) /\ l.mk \in {" ", "/", "c"}

\* line.substring(2) of an archive line, and '> ' + line
Unquote(l) == [l EXCEPT !.q = FALSE]
Quote(l) == [l EXCEPT !.q = TRUE]

SeparatorLines == 7

\* The first pass: the lines sorted into calendar events, active lines,
\* newly archived lines and the unwrapped content of an existing callout.
RECURSIVE ArchiveScan(_, _, _, _)
ArchiveScan(doc, i, inArchive, acc) ==
  IF i > Len(doc) THEN acc
  ELSE LET line == doc[i]
           last == RunEnd(doc, i)
       IN IF IsArchiveHeader(line) THEN ArchiveScan(doc, i + 1, TRUE, acc)
          ELSE IF inArchive /\ IsArchiveLine(line)
          THEN ArchiveScan(doc, i + 1, TRUE, [acc EXCEPT !.existing = Append(@, Unquote(line))])
          ELSE IF IsCalendarEvent(line)
          THEN ArchiveScan(doc, i + 1, FALSE, [acc EXCEPT !.calendar = Append(@, line)])
          ELSE IF IsArchiveState(line)
          THEN ArchiveScan(doc, last + 1, FALSE,
                           [acc EXCEPT !.archived = @ \o SubSeq(doc, i, last)])
          ELSE IF IsActiveState(line)
          THEN ArchiveScan(doc, last + 1, FALSE,
                           [acc EXCEPT !.active = @ \o SubSeq(doc, i, last)])
          ELSE IF ~IsBlank(line) \/ acc.active # <<>>
          THEN ArchiveScan(doc, i + 1, FALSE, [acc EXCEPT !.active = Append(@, line)])
          ELSE ArchiveScan(doc, i + 1, FALSE, acc)

\* the result with its empty lines left at the end
KeepBlankLines(doc) == doc

\* while (result[result.length - 1] === '') result.pop()
RECURSIVE PopBlankLines(_)
PopBlankLines(doc) ==
  IF doc # <<>> /\ IsBlank(doc[Len(doc)]) THEN PopBlankLines(SubSeq(doc, 1, Len(doc) - 1))
  ELSE doc

\* archiveContent(content, settings); the empty result is the empty content
ArchiveContent(doc) ==
  LET acc == ArchiveScan(doc, 1, FALSE,
               [calendar |-> <<>>, active |-> <<>>, archived |-> <<>>, existing |-> <<>>])
      top == acc.calendar \o acc.active
      allArchived == acc.archived \o acc.existing
      out == IF allArchived = <<>> THEN top
             ELSE (IF top = <<>> THEN <<>>
                   ELSE PopBlankLines(top) \o [j \in 1..SeparatorLines |-> Blank])
                  \o <<ArchiveHeader>>
                  \o [j \in 1..Len(allArchived) |-> Quote(allArchived[j])]
  IN IF out = <<>> THEN <<Blank>> ELSE out

(***************************************************************************)
(* Task notes (the satellite documents), one per sanitized task text       *)
(***************************************************************************)
Texts == {"T"}

\* extractTaskTextFromLine: /^- \[.\]\s*(.+)$/ then cleanTaskText, which drops
\* the time block and every tag; "" stands for null and for the empty text.
ExtractTaskTextFromLine(l) == IF IsParentTask(l) THEN l.txt ELSE ""

\* The frontmatter fields and the body link the scheduler rewrites;
\* scheduled = NoDate: the note has no "scheduled:" field.
NoNote == [ex |-> FALSE, sourceFile |-> NoDate, scheduled |-> NoDate, link |-> NoDate]

\* updateTaskNoteSourceFile(app, settings, taskText, newSourcePath, scheduledDate)
UpdateTaskNoteSourceFile(ns, taskText, newSource, scheduledDate) ==
  IF taskText = "" \/ ~ns[taskText].ex THEN ns
  ELSE [ns EXCEPT ![taskText].sourceFile = newSource,
                  ![taskText].scheduled = scheduledDate,
                  ![taskText].link = newSource]

\* the note left as it is
UpdateNothing(ns, taskText, current) == ns

\* updateTaskNoteForUnschedule: the scheduled field is rewritten only when present
UpdateTaskNoteForUnschedule(ns, taskText, current) ==
  IF taskText = "" \/ ~ns[taskText].ex THEN ns
  ELSE [ns EXCEPT ![taskText].sourceFile = current,
                  ![taskText].scheduled = IF @ = NoDate THEN NoDate ELSE current,
                  ![taskText].link = current]

(***************************************************************************)
(* TaskScheduler.scheduleTask                                              *)
(***************************************************************************)
\* the target with the copy and a copy of a subtask after it
ScheduleTargetWithSubtask(tc, line, fromDate) ==
  TrimEnd(tc) \o <<CreateScheduledTaskCopy(line, fromDate),
                   TaskLine(1, " ", 0, "", <<>>, FALSE)>>

\* The target document after steps 2-4: the existing line with the id is
\* rewritten in place, otherwise the copy is appended.
ScheduleTarget(tc, line, fromDate) ==
  LET taskId == ExtractId(line)
      at == IF taskId = NoId THEN 0 ELSE FindById(tc, taskId)
  IN IF at # 0
     THEN [tc EXCEPT ![at] = UpdateExistingCopy(tc[at], fromDate)]
     ELSE TrimEnd(tc) \o <<CreateScheduledTaskCopy(line, fromDate)>>

\* the marking that goes on past the first line that is no subtask
ScheduleSourceAllSubtasks(ed, n, line, toDate) ==
  [i \in 1..Len(ed) |->
     IF i = n THEN MarkTaskAsScheduled(line, toDate)
     ELSE IF i > n /\ IsSubtask(ed[i]) THEN SetMarker(ed[i], ">")
          ELSE ed[i]]

\* The editor after steps 5-6: line n becomes the marked line, every line of
\* the subtask run after it gets marker ">".
ScheduleSource(ed, n, line, toDate) ==
  [i \in 1..Len(ed) |->
     IF i = n THEN MarkTaskAsScheduled(line, toDate)
     ELSE IF i > n /\ i <= RunEnd(ed, n)
          THEN SetMarker(ed[i], ">")
          ELSE ed[i]]

Content(d) == IF d \in files THEN docs[d] ELSE <<Blank>>

\* What the last call was and did: its arguments, the line it read, its
\* return value and the notice it showed.  A rejected call is kept by its
\* notice alone.
Call(op, src, n, tgt, line, notice) ==
  [op |-> op, src |-> src, n |-> n, tgt |-> tgt, ok |-> TRUE, line |-> line,
   notice |-> notice]

Rejected(op, notice) ==
  [op |-> op, src |-> NoDate, n |-> 0, tgt |-> NoDate, ok |-> FALSE, line |-> Blank,
   notice |-> notice]

\* No scheduleTask call stands to be undone.
NoUndo == [src |-> NoDate, n |-> 0, tgt |-> NoDate, doc |-> <<>>, done |-> FALSE]

\* scheduleTask(app, settings, editor, lineNum, targetDate) with the note of
\* date src open in the editor.  When the target is the open note itself the
\* editor either has or has not taken up the vault's write when setLine runs.
ScheduleTask(src, n, tgt) ==
  /\ src \in files
  /\ n \in 1..Len(docs[src])
  /\ LET line == docs[src][n]
     IN IF ~IsTask(line)
        THEN /\ ret' = Rejected("schedule", "Not a task line")
             /\ calls' = calls + 1
             /\ UNCHANGED <<files, docs, notes, fwd, undo>>
        ELSE IF HasTag(line, "to", tgt)
        THEN /\ ret' = Rejected("schedule", "Task already scheduled to this date")
             /\ calls' = calls + 1
             /\ UNCHANGED <<files, docs, notes, fwd, undo>>
        ELSE LET newTarget == ScheduleTarget(Content(tgt), line, src)
             IN /\ Cardinality({i \in 1..Len(newTarget) : newTarget[i].kind = "task"}) <= MaxTasks
                /\ files' = files \cup {tgt}
                /\ \E refreshed \in BOOLEAN :
                     /\ (tgt # src => refreshed)
                     /\ LET ed == IF tgt = src /\ refreshed THEN newTarget ELSE docs[src]
                        IN docs' = [docs EXCEPT ![tgt] = newTarget,
                                                ![src] = ScheduleSource(ed, n, line, tgt)]
                /\ notes' = UpdateTaskNoteSourceFile(notes, ExtractTaskTextFromLine(line), tgt, tgt)
                /\ ret' = Call("schedule", src, n, tgt, line, "Task scheduled")
                /\ calls' = calls + 1
                \* for each id, where its task was last sent from each note
                /\ fwd' = IF ExtractId(line) = NoId THEN fwd
                          ELSE [fwd EXCEPT ![ExtractId(line)][src] = tgt]
                \* the note as it was before this call, for the call that undoes it
                /\ undo' = [src |-> src, n |-> n, tgt |-> tgt, doc |-> docs[src],
                            done |-> FALSE]

(***************************************************************************)
(* TaskScheduler.unscheduleTask                                            *)
(***************************************************************************)
\* Steps 1-2 on the editor: the line is reset, and ">" becomes " " on every
\* line of the subtask run after it.
UnscheduleSource(ed, n, line) ==
  [i \in 1..Len(ed) |->
     IF i = n THEN ResetScheduledTask(line)
     ELSE IF i > n /\ i <= RunEnd(ed, n) THEN ResetMarker(ed[i])
          ELSE ed[i]]

\* Step 3 on the target's content: the first line with the id goes, with the
\* subtask run after it; then blank runs collapse and the end is trimmed.
\* Without such a line the content is not written.
UnscheduleTarget(tc, taskId) ==
  LET at == FindById(tc, taskId)
  IN IF at = 0 THEN tc
     ELSE TrimEnd(CollapseBlankLines(
            KeepLines(tc, (1..Len(tc)) \ (at..RunEnd(tc, at)), 1)))

UnscheduleTask(src, n) ==
  /\ src \in files
  /\ n \in 1..Len(docs[src])
  /\ LET line == docs[src][n]
         targetDate == ExtractScheduledToDate(line)
         taskId == ExtractId(line)
     IN IF ~IsTask(line)
        THEN /\ ret' = Rejected("unschedule", "Not a task line")
             /\ calls' = calls + 1
             /\ UNCHANGED <<files, docs, notes, fwd, undo>>
        ELSE IF targetDate = NoDate /\ ~IsScheduledAway(line)
        THEN /\ ret' = Rejected("unschedule", "Task is not scheduled")
             /\ calls' = calls + 1
             /\ UNCHANGED <<files, docs, notes, fwd, undo>>
        ELSE /\ \E refreshed \in BOOLEAN :
                  LET ed == UnscheduleSource(docs[src], n, line)
                      hasTarget == targetDate # NoDate /\ taskId # NoId /\ targetDate \in files
                      \* vault.read: the stored content, without the editor's edits
                      tc == Content(targetDate)
                  IN /\ (~(hasTarget /\ targetDate = src) => refreshed)
                     /\ docs' = IF ~hasTarget THEN [docs EXCEPT ![src] = ed]
                                ELSE IF targetDate = src
                                     THEN [docs EXCEPT ![src] =
                                             IF refreshed THEN UnscheduleTarget(tc, taskId) ELSE ed]
                                     ELSE [docs EXCEPT ![src] = ed,
                                                       ![targetDate] = UnscheduleTarget(tc, taskId)]
             /\ notes' = UpdateTaskNoteForUnschedule(notes, ExtractTaskTextFromLine(line), src)
             /\ ret' = Call("unschedule", src, n, targetDate, line, "Task unscheduled")
             /\ calls' = calls + 1
             \* done: this call follows the scheduleTask of this very line
             /\ undo' = IF undo.src = src /\ undo.n = n /\ undo.tgt = targetDate /\ ~undo.done
                         THEN [undo EXCEPT !.done = TRUE]
                         ELSE NoUndo
             /\ UNCHANGED <<files, fwd>>

(***************************************************************************)
(* The vault at start, and the specification                               *)
(***************************************************************************)
\* The task followed in the first note: plain, with a time block and trailing
\* space, or completed, with an id; or plain without one.
InitParents ==
  {TaskLine(0, v[1], v[2], "T", v[4], v[3]) :
     v \in {<<" ", 0, FALSE, <<Tag("id", 1)>>>>, <<" ", 1, TRUE, <<Tag("id", 1)>>>>,
            <<"x", 0, FALSE, <<Tag("id", 1)>>>>, <<" ", 0, FALSE, <<>>>>}}

\* its subtask: open, or completed and linked to the parent by id
InitSubtasks ==
  {TaskLine(1, v[1], 0, "", v[2], FALSE) :
     v \in {<<" ", <<>>>>, <<"x", <<Tag("parent", 1)>>>>}}

\* parent, its subtask run, a line of prose, a later subtask
InitNotes1 ==
  {<<p, s, Other("text"), TaskLine(1, " ", 0, "", <<>>, FALSE)>> :
     p \in InitParents, s \in InitSubtasks}

InitNotes2 == {<<Other("text"), Blank>>}

\* Notes 1 and 2 exist, the others do not yet; the task "T" has a task note,
\* the task "U" has none.
Init ==
  /\ files = {1, 2}
  /\ \E d1 \in InitNotes1, d2 \in InitNotes2 :
       docs = [d \in Dates |-> IF d = 1 THEN d1 ELSE IF d = 2 THEN d2 ELSE <<Blank>>]
  /\ notes = [t \in Texts |->
                IF t = "T"
                THEN [ex |-> TRUE, sourceFile |-> 1, scheduled |-> NoDate, link |-> 1]
                ELSE NoNote]
  /\ ret = Rejected("none", "")
  /\ calls = 0
  /\ fwd = [id \in Ids |-> [d \in Dates |-> NoDate]]
  /\ undo = NoUndo
  /\ plugin = Loaded

\* the command "Archive completed/scheduled tasks now" in the note of date d
ArchiveTasks(d) ==
  /\ d \in files
  /\ IF ArchiveContent(docs[d]) # docs[d]
     THEN /\ docs' = [docs EXCEPT ![d] = ArchiveContent(docs[d])]
          /\ ret' = Call("archive", d, 0, NoDate, Blank, "Tasks archived")
          /\ calls' = calls + 1
          /\ undo' = NoUndo
     ELSE /\ ret' = Rejected("archive", "No tasks to archive")
          /\ calls' = calls + 1
          /\ UNCHANGED <<docs, undo>>
  /\ UNCHANGED <<files, notes, fwd>>

\* a call of scheduleTask on a line of an open note: the command "Schedule
\* task" opens the popup on a task line, the call re-reads the line when the
\* date is picked
ScheduleCommand ==
  /\ calls < MaxCalls
  /\ \E src \in Dates : \E n \in 1..Len(docs[src]), tgt \in Dates : ScheduleTask(src, n, tgt)
  /\ UNCHANGED plugin

\* a call of unscheduleTask on a line of an open note; the command
\* "Unschedule task" makes it on the task lines with ">" or a [> date]
UnscheduleCommand ==
  /\ calls < MaxCalls
  /\ \E src \in Dates : \E n \in 1..Len(docs[src]) : UnscheduleTask(src, n)
  /\ UNCHANGED plugin

ArchiveCommand ==
  /\ calls < MaxCalls
  /\ \E d \in Dates : ArchiveTasks(d)
  /\ UNCHANGED plugin

Next == ScheduleCommand \/ UnscheduleCommand \/ ArchiveCommand

Spec == Init /\ [][Next]_vars

(***************************************************************************)
(* Moving one task's live copy from note to note                           *)
(***************************************************************************)
TrackedId == CHOOSE id \in Ids : TRUE

\* the lines of note d that carry the id
LinesWithId(d, id) == {i \in 1..Len(docs[d]) : HasId(docs[d][i], id)}

\* a line holding a live copy: a checkbox line whose marker is not ">"
IsLive(l) == IsTask(l) /\ l.mk # ">"

\* scheduleTask on the line that holds the live copy of the tracked task, to
\* another date than the open note's
ScheduleLive(src, n, tgt) ==
  /\ tgt # src
  /\ src \in files
  /\ n \in LinesWithId(src, TrackedId)
  /\ IsParentTask(docs[src][n]) /\ IsLive(docs[src][n])
  /\ ScheduleTask(src, n, tgt)

MoveLive ==
  /\ calls < MaxMoves
  /\ \E src \in Dates : \E n \in 1..Len(docs[src]), tgt \in Dates : ScheduleLive(src, n, tgt)
  /\ UNCHANGED plugin

NextCycle == MoveLive

SpecCycle == Init /\ [][NextCycle]_vars

\* C1: after any sequence of moves of the live copy there is exactly one live
\* copy of the task, it is in the note targeted last, and every other note the
\* task went through holds no line with its id or only a ">"-marked line whose
\* [> date] names the date the task was sent to from there.
C1_OneLiveCopyAfterCycle ==
  ret.op = "schedule" =>
    /\ \A d \in Dates : \A i \in LinesWithId(d, TrackedId) :
         IsLive(docs[d][i]) => d = ret.tgt
    /\ Cardinality({i \in LinesWithId(ret.tgt, TrackedId) : IsLive(docs[ret.tgt][i])}) = 1
    /\ \A d \in Dates \ {ret.tgt} :
         fwd[TrackedId][d] # NoDate =>
           \A i \in LinesWithId(d, TrackedId) :
             /\ IsScheduledAway(docs[d][i])
             /\ TagValues(docs[d][i], "to") = <<Tag("to", fwd[TrackedId][d])>>

\* the cycle 1 -> 2 -> 3 -> 1 has been made
C1_Witness ==
  /\ ret.op = "schedule" /\ ret.src = 3 /\ ret.tgt = 1 /\ calls = 3
  /\ fwd[TrackedId] = [d \in Dates |-> IF d = 1 THEN 2 ELSE IF d = 2 THEN 3 ELSE 1]

(***************************************************************************)
(* Scheduling there and back                                               *)
(***************************************************************************)
\* a document with the trailing whitespace of its lines put aside
Untrailed(doc) == [i \in 1..Len(doc) |-> [doc[i] EXCEPT !.trail = FALSE]]

NonBlank(doc) == SelectSeq(doc, LAMBDA l : ~IsBlank(l))

\* C2: scheduleTask on a line of D1 to another date D2, followed by
\* unscheduleTask on the same line, leaves D1 as it was before the scheduleTask (marker, time block, text
\* and tags of the line, marker of each subtask) and leaves no line with the
\* task's id in D2.
C2_RoundTripRestores ==
  (undo.done /\ undo.tgt # undo.src) =>
    /\ Untrailed(docs[undo.src]) = Untrailed(undo.doc)
    /\ ExtractId(undo.doc[undo.n]) # NoId =>
         LinesWithId(undo.tgt, ExtractId(undo.doc[undo.n])) = {}

\* C3: when scheduleTask targets another note that already holds a line with
\* the task's id, the target keeps its number of lines, every other line of it
\* is unchanged, and the line with the id has marker " ", no scheduling tag but
\* one [< fromDate] naming the note scheduled from.
C3_BounceRewritesInPlace ==
  [][ (/\ ret'.ok /\ ret'.op = "schedule" /\ ret'.tgt # ret'.src
       /\ ExtractId(ret'.line) # NoId
       /\ FindById(Content(ret'.tgt), ExtractId(ret'.line)) # 0)
      => LET tgt == ret'.tgt
             at == FindById(Content(tgt), ExtractId(ret'.line))
         IN /\ Len(docs'[tgt]) = Len(docs[tgt])
            /\ \A i \in 1..Len(docs[tgt]) : i # at => docs'[tgt][i] = docs[tgt][i]
            /\ docs'[tgt][at].mk = " "
            /\ SelectSeq(docs'[tgt][at].tags, LAMBDA t : t.k \in SchedulingKinds)
                 = <<Tag("from", ret'.src)>>
    ]_vars

\* C4: scheduleTask on a task line whose id no line of the target note has
\* (or that has no id), to another date than the open note's, adds one line at
\* the end of the target: marker " ", the same id, no parent tag, no [> date],
\* and one [< date] naming the open note; the lines the target had stay.  For
\* the line "- [ ] text [id::X]" the source line becomes
\* "- [>] text [id::X] [> D2]" and the new line is "- [ ] text [id::X] [< D1]".
C4_ScheduleToAbsent ==
  [][ (/\ ret'.ok /\ ret'.op = "schedule" /\ ret'.tgt # ret'.src
       /\ \/ ExtractId(ret'.line) = NoId
          \/ FindById(Content(ret'.tgt), ExtractId(ret'.line)) = 0)
      => LET src == ret'.src
             tgt == ret'.tgt
             line == ret'.line
             copy == docs'[tgt][Len(docs'[tgt])]
         IN /\ Untrailed(NonBlank(docs'[tgt]))
                 = Untrailed(NonBlank(Content(tgt))) \o <<copy>>
            /\ IsTask(copy) /\ copy.mk = " " /\ copy.ind = line.ind
            /\ copy.txt = line.txt /\ copy.tb = line.tb
            /\ TagValues(copy, "id") = TagValues(line, "id")
            /\ TagValues(copy, "parent") = <<>>
            /\ TagValues(copy, "to") = <<>>
            /\ TagValues(copy, "from") = <<Tag("from", src)>>
            /\ \A X \in Ids :
                 (IsParentTask(line) /\ line.mk = " " /\ line.tb = 0
                  /\ line.tags = <<Tag("id", X)>>)
                 => /\ docs'[src][ret'.n]
                         = TaskLine(0, ">", 0, line.txt, <<Tag("id", X), Tag("to", tgt)>>, FALSE)
                    /\ copy = TaskLine(0, " ", 0, line.txt,
                                       <<Tag("id", X), Tag("from", src)>>, FALSE)
    ]_vars

\* "- [ ] T [id::1]" of note 1 has been scheduled to the date of a note that
\* did not exist
C4_Witness ==
  /\ ret.ok /\ ret.op = "schedule" /\ ret.src = 1 /\ ret.tgt = 3
  /\ ret.line = TaskLine(0, " ", 0, "T", <<Tag("id", 1)>>, FALSE)
  /\ docs[3] = <<Blank, TaskLine(0, " ", 0, "T", <<Tag("id", 1), Tag("from", 1)>>, FALSE)>>

(***************************************************************************)
(* The subtask run                                                         *)
(***************************************************************************)
\* line i of doc is in the contiguous run of subtask lines after line n
InRun(doc, n, i) == i > n /\ i <= Len(doc) /\ \A j \in (n + 1)..i : IsSubtask(doc[j])

Subtasks(doc) == SelectSeq(doc, IsSubtask)

\* C5 as stated: after scheduleTask on a parent line followed by a run of
\* subtask lines, the target holds the parent's live copy and, on the lines
\* after it, a live copy of each subtask of the run.
C5_SubtasksCopied ==
  [][ (/\ ret'.ok /\ ret'.op = "schedule" /\ ret'.tgt # ret'.src
       /\ IsParentTask(ret'.line)
       /\ InRun(docs[ret'.src], ret'.n, ret'.n + 1))
      => \E k \in 1..Len(docs'[ret'.tgt]) :
           /\ IsParentTask(docs'[ret'.tgt][k]) /\ IsLive(docs'[ret'.tgt][k])
           /\ docs'[ret'.tgt][k].txt = ret'.line.txt
           /\ \A i \in 1..Len(docs[ret'.src]) :
                InRun(docs[ret'.src], ret'.n, i) =>
                  LET at == k + (i - ret'.n)
                  IN /\ at <= Len(docs'[ret'.tgt])
                     /\ IsSubtask(docs'[ret'.tgt][at]) /\ IsLive(docs'[ret'.tgt][at])
    ]_vars

\* C5, amended: after scheduleTask on a parent line followed by a run of
\* subtask lines, to another date than the open note's, the target has gained
\* at most one line, a top-level one, and no subtask line: the subtasks of the
\* run are marked ">" in the source and none of them is copied.
C5_OnlyParentCopied ==
  [][ (/\ ret'.ok /\ ret'.op = "schedule" /\ ret'.tgt # ret'.src
       /\ IsParentTask(ret'.line)
       /\ InRun(docs[ret'.src], ret'.n, ret'.n + 1))
      => /\ Subtasks(docs'[ret'.tgt]) = Subtasks(Content(ret'.tgt))
         /\ Len(NonBlank(docs'[ret'.tgt])) - Len(NonBlank(Content(ret'.tgt))) \in {0, 1}
         /\ \A i \in 1..Len(docs[ret'.src]) :
              InRun(docs[ret'.src], ret'.n, i) => docs'[ret'.src][i].mk = ">"
    ]_vars

\* a parent with a subtask has gone from note 1 to note 2, which holds the
\* copy of the parent and no subtask
C5_Witness ==
  /\ ret.ok /\ ret.op = "schedule" /\ ret.src = 1 /\ ret.n = 1 /\ ret.tgt = 2
  /\ IsParentTask(ret.line)
  /\ IsScheduledAway(docs[1][2])
  /\ Subtasks(docs[2]) = <<>>
  /\ \E k \in 1..Len(docs[2]) : IsParentTask(docs[2][k]) /\ IsLive(docs[2][k])

\* C6: scheduleTask on a parent line sets the marker ">" on every line of the
\* contiguous run of subtask lines after it and changes nothing else of them;
\* every line before the task, the first line after the run that is no
\* subtask and every line after that one stay as they were.
C6_RunMarkedRestUnchanged ==
  [][ (ret'.ok /\ ret'.op = "schedule" /\ IsParentTask(ret'.line))
      => LET old == docs[ret'.src]
             new == docs'[ret'.src]
         IN /\ Len(new) >= Len(old)
            /\ \A i \in 1..Len(old) :
                 IF i = ret'.n THEN IsScheduledAway(new[i])
                 ELSE IF InRun(old, ret'.n, i) THEN new[i] = [old[i] EXCEPT !.mk = ">"]
                 ELSE new[i] = old[i]
    ]_vars

\* the parent on line 1 of note 1 has been scheduled: its subtask on line 2 is
\* marked, the prose on line 3 and the open subtask on line 4 are as before
C6_Witness ==
  /\ ret.ok /\ ret.op = "schedule" /\ ret.src = 1 /\ ret.n = 1
  /\ IsParentTask(ret.line)
  /\ IsSubtask(docs[1][2]) /\ docs[1][2].mk = ">"
  /\ docs[1][3] = Other("text")
  /\ docs[1][4] = TaskLine(1, " ", 0, "", <<>>, FALSE)

(***************************************************************************)
(* Unscheduling                                                            *)
(***************************************************************************)
NoSchedulingTags(l) == \A i \in 1..Len(l.tags) : l.tags[i].k \notin SchedulingKinds

UnscheduleLast(src, n) ==
  /\ src \in files
  /\ n \in LinesWithId(src, TrackedId)
  /\ IsParentTask(docs[src][n]) /\ IsScheduledAway(docs[src][n])
  /\ LET to == ExtractScheduledToDate(docs[src][n])
     IN /\ to \in files \ {src}
        /\ \E i \in LinesWithId(to, TrackedId) : IsLive(docs[to][i])
  /\ UnscheduleTask(src, n)

UndoLast ==
  /\ calls < MaxMoves
  /\ \E src \in Dates : \E n \in 1..Len(docs[src]) : UnscheduleLast(src, n)
  /\ UNCHANGED plugin

NextTrack == MoveLive \/ UndoLast

SpecTrack == Init /\ [][NextTrack]_vars

\* the notes that hold a live line of the tracked task
LiveIn == {d \in files : \E i \in LinesWithId(d, TrackedId) : IsLive(docs[d][i])}

\* C8: after a completed scheduleTask the task note's sourceFile and Source
\* link name the target note and its scheduled field is the target date;
\* after a completed unscheduleTask its sourceFile names the note the task was
\* unscheduled in; and after any sequence of these calls on the live copy the
\* note named by sourceFile is the one that holds the live copy.
C8_NoteTracksLiveCopy ==
  LET note == notes[ExtractTaskTextFromLine(ret.line)]
  IN (ret.ok /\ note.ex) =>
       /\ ret.op = "schedule" =>
            /\ note.sourceFile = ret.tgt /\ note.link = ret.tgt
            /\ note.scheduled = ret.tgt
       /\ ret.op = "unschedule" => note.sourceFile = ret.src /\ note.link = ret.src
       /\ LiveIn = {note.sourceFile}

\* the task went from note 1 to note 2 and on to note 3, and was then
\* unscheduled in note 2
C8_Witness ==
  /\ ret.ok /\ ret.op = "unschedule" /\ ret.src = 2 /\ ret.tgt = 3
  /\ fwd[TrackedId][1] = 2 /\ fwd[TrackedId][2] = 3
  /\ notes["T"].ex /\ notes["T"].sourceFile = 2
  /\ LiveIn = {2}

C10_RejectedChangesNothing ==
  [][ /\ (~ret'.ok /\ ret'.op \in {"schedule", "unschedule"})
           => docs' = docs /\ files' = files /\ notes' = notes
      \* and the calls that went through were none of those
      /\ (ret'.ok /\ ret'.op = "schedule")
           => LET l == docs[ret'.src][ret'.n]
              IN /\ l.kind = "task" /\ ~l.q
                 /\ \A i \in 1..Len(l.tags) : l.tags[i] # Tag("to", ret'.tgt)
      /\ (ret'.ok /\ ret'.op = "unschedule")
           => LET l == docs[ret'.src][ret'.n]
              IN /\ l.kind = "task" /\ ~l.q
                 /\ l.mk = ">" \/ \E i \in 1..Len(l.tags) : l.tags[i].k = "to"
    ]_vars

\* a call to schedule a task to the date it is scheduled to already has been
\* rejected, after a call that went through
C10_Witness ==
  /\ ~ret.ok /\ ret.op = "schedule"
  /\ ret.notice = "Task already scheduled to this date"
  /\ calls >= 1
(***************************************************************************)
(* TaskUtils: ids, parent links and the order of the tags                  *)
(***************************************************************************)
GenIds == {2, 3}   \* what generateId can return to one document

\* The tags of l without the first one of kind k (String.replace without /g
\* of a pattern that starts with \s*).
WithoutFirst(l, k) ==
  LET at == CHOOSE i \in 1..Len(l.tags) :
              l.tags[i].k = k /\ \A j \in 1..(i - 1) : l.tags[j].k # k
  IN [l EXCEPT !.tags = SubSeq(@, 1, at - 1) \o SubSeq(@, at + 1, Len(@)),
               !.pad = IF at = 1 THEN 0 ELSE @]

\* addId(line, id)
AddId(l, id) == IF ExtractId(l) # NoId THEN l ELSE AppendTag(l, "id", id)

\* extractParentId: the first parent tag anywhere on the line
ExtractParentId(l) ==
  IF TagValues(l, "parent") = <<>> THEN NoId ELSE TagValues(l, "parent")[1].v

\* removeParentId: line.replace(/\s*\[parent::[^\]]+\]/, '')
RemoveParentId(l) == IF TagValues(l, "parent") = <<>> THEN l ELSE WithoutFirst(l, "parent")

\* addParentId(line, parentId)
AddParentId(l, parentId) ==
  IF ExtractParentId(l) # NoId
  THEN IF ExtractParentId(l) = parentId THEN l
       ELSE LET at == CHOOSE i \in 1..Len(l.tags) :
                        l.tags[i].k = "parent" /\ \A j \in 1..(i - 1) : l.tags[j].k # "parent"
            IN [l EXCEPT !.tags[at] = Tag("parent", parentId)]
  ELSE AppendTag(l, "parent", parentId)

\* The kinds of tag normalizeMetadataOrder takes out and puts back, in the
\* order it puts them back ([uid::..] belongs to calendar events only).
OrderedKinds == <<"id", "parent", "from", "to">>

FirstOfKind(l, k) == IF TagValues(l, k) = <<>> THEN <<>> ELSE <<TagValues(l, k)[1]>>

\* normalizeMetadataOrder(line): the prefix takes the whitespace after the
\* checkbox, the tags of the four kinds leave the content with the whitespace
\* before them, and the parts are joined by one space each; a legacy tag is
\* content.  When the content starts with a tag of the four kinds the join
\* puts one more space after the prefix.
NormalizeMetadataOrder(l) ==
  IF ~IsTask(l) \/ (l.tb = 0 /\ l.txt = "" /\ l.tags = <<>>) THEN l
  ELSE [l EXCEPT
          !.tags = SelectSeq(l.tags, LAMBDA t: t.k \in {"lfrom", "lto"})
                   \o FirstOfKind(l, "id") \o FirstOfKind(l, "parent")
                   \o FirstOfKind(l, "from") \o FirstOfKind(l, "to"),
          !.trail = FALSE,
          !.pad = IF l.tb = 0 /\ l.txt = "" /\ l.tags[1].k \notin {"lfrom", "lto"}
                  THEN @ + 1 ELSE @]

(***************************************************************************)
(* TaskIdManager.processContent and ParentChildLinker.linkContent          *)
(***************************************************************************)
\* the pass that gives every checkbox line a new id
ProcessContentAll(doc, gen) ==
  [i \in 1..Len(doc) |->
     IF IsTask(doc[i]) THEN [doc[i] EXCEPT !.tags = <<Tag("id", CHOOSE g \in GenIds : TRUE)>>]
     ELSE doc[i]]

\* the lines processContent calls generateId for
LinesWithoutId(doc) ==
  {i \in 1..Len(doc) :
     IsTask(doc[i]) /\ ~IsCalendarEvent(doc[i]) /\ ExtractId(doc[i]) = NoId}

\* processContent(content): gen[i] is what generateId returns for line i
ProcessContent(doc, gen) ==
  [i \in 1..Len(doc) |->
     IF IsCalendarEvent(doc[i]) THEN doc[i]
     ELSE IF IsTask(doc[i]) /\ ExtractId(doc[i]) = NoId THEN AddId(doc[i], gen[i])
          ELSE doc[i]]

IsHeading(l) == l.kind \in {"heading", "completed"} /\ ~l.q

\* the id of the last top-level checkbox line above line i, headings or not
RECURSIVE LastParentIdAbove(_, _)
LastParentIdAbove(doc, i) ==
  IF i <= 1 THEN NoId
  ELSE IF IsParentTask(doc[i - 1]) THEN ExtractId(doc[i - 1])
  ELSE LastParentIdAbove(doc, i - 1)

\* currentParentId when the loop of linkContent reaches line i: the id of the
\* last top-level checkbox line before i, null after a heading or at the top.
RECURSIVE CurrentParentId(_, _)
CurrentParentId(doc, i) ==
  IF i <= 1 THEN NoId
  ELSE IF IsParentTask(doc[i - 1]) THEN ExtractId(doc[i - 1])
  ELSE IF IsHeading(doc[i - 1]) THEN NoId
  ELSE CurrentParentId(doc, i - 1)

\* linkContent(content)
LinkContent(doc) ==
  [i \in 1..Len(doc) |->
     IF IsParentTask(doc[i]) THEN RemoveParentId(doc[i])
     ELSE IF IsSubtask(doc[i]) /\ ExtractParentId(doc[i]) = NoId
                               /\ CurrentParentId(doc, i) # NoId
          THEN AddParentId(doc[i], CurrentParentId(doc, i))
          ELSE doc[i]]

\* The backwards search of processLineOnLeave: the id of the nearest top-level
\* checkbox line above line n, whatever stands in between.
RECURSIVE NearestParentId(_, _)
NearestParentId(doc, n) ==
  IF n <= 1 THEN NoId
  ELSE IF IsParentTask(doc[n - 1]) THEN ExtractId(doc[n - 1])
  ELSE NearestParentId(doc, n - 1)

\* the line processLineOnLeave(lineNum) writes (the line itself when it
\* writes nothing); g is what generateId returns when it is called
ProcessLine(doc, n, g) ==
  LET line == doc[n]
      withId == IF ExtractId(line) = NoId THEN AddId(line, g) ELSE line
      parentId == NearestParentId(doc, n)
      linked == IF IsSubtask(line) /\ parentId # NoId /\ ExtractParentId(withId) = NoId
                THEN AddParentId(withId, parentId) ELSE withId
  IN IF ~IsTask(line) \/ IsCalendarEvent(line) THEN line
     ELSE NormalizeMetadataOrder(linked)

(***************************************************************************)
(* TaskSorter.sortContent                                                  *)
(***************************************************************************)
\* /^##\s*Completed\s*$/i
IsCompletedHeading(l) == l.kind = "completed" /\ ~l.q

CompletedHeading == Other("completed")

\* COMPLETED_PATTERN /^[\t]*- \[[xX\->]\]/
IsCompleted(l) == IsTask(l) /\ l.mk \in {"x", "X", "-", ">"}

\* The members of a set of line numbers in ascending order.
RECURSIVE Ascending(_)
Ascending(S) ==
  IF S = {} THEN <<>>
  ELSE LET m == CHOOSE x \in S : \A y \in S : x <= y
       IN <<m>> \o Ascending(S \ {m})

\* inCompletedSection when the loop reaches line i
RECURSIVE InCompletedSection(_, _)
InCompletedSection(doc, i) ==
  IF i <= 1 THEN FALSE
  ELSE IF IsCompletedHeading(doc[i - 1]) THEN TRUE
  ELSE IF IsHeading(doc[i - 1]) THEN FALSE
  ELSE InCompletedSection(doc, i - 1)

\* allParentTasks, allSubtasks and otherLines, as sets of line numbers
AllParentTasks(doc) ==
  {i \in 1..Len(doc) : IsParentTask(doc[i]) /\ ~InCompletedSection(doc, i)}

AllSubtasks(doc) ==
  {i \in 1..Len(doc) : IsSubtask(doc[i]) /\ ~InCompletedSection(doc, i)}

OtherLines(doc) ==
  {i \in 1..Len(doc) :
     /\ ~IsTask(doc[i])
     /\ ~IsCompletedHeading(doc[i])
     /\ (InCompletedSection(doc, i) => IsHeading(doc[i]))}

\* completedTasks: the groups read from under the "## Completed" heading
RECURSIVE CompletedTasks(_, _, _)
CompletedTasks(doc, i, acc) ==
  IF i > Len(doc) THEN acc
  ELSE LET line == doc[i]
           pid == ExtractParentId(line)
           at == IF pid # NoId /\ \E k \in 1..Len(acc) : ExtractId(acc[k].parent) = pid
                 THEN CHOOSE k \in 1..Len(acc) :
                        /\ ExtractId(acc[k].parent) = pid
                        /\ \A j \in 1..(k - 1) : ExtractId(acc[j].parent) # pid
                 ELSE Len(acc)
       IN IF IsCompletedHeading(line) \/ ~InCompletedSection(doc, i)
          THEN CompletedTasks(doc, i + 1, acc)
          ELSE IF IsParentTask(line)
          THEN CompletedTasks(doc, i + 1, Append(acc, [parent |-> line, subtasks |-> <<>>]))
          ELSE IF IsSubtask(line) /\ acc # <<>>
          THEN CompletedTasks(doc, i + 1, [acc EXCEPT ![at].subtasks = Append(@, line)])
          ELSE CompletedTasks(doc, i + 1, acc)

\* group.subtasks.push(line) unless group.subtasks.includes(line), for each
RECURSIVE PushNew(_, _)
PushNew(acc, lines) ==
  IF lines = <<>> THEN acc
  ELSE PushNew(IF \E k \in 1..Len(acc) : acc[k] = lines[1] THEN acc
               ELSE Append(acc, lines[1]),
               Tail(lines))

\* The group of the parent task at line p: the subtasks whose parent tag is
\* its id, then the subtasks without parent tag whose closest parent task
\* above is p.
TaskGroup(doc, p) ==
  LET byId == Ascending({s \in AllSubtasks(doc) :
                 /\ ExtractId(doc[p]) # NoId
                 /\ ExtractParentId(doc[s]) = ExtractId(doc[p])})
      legacy == Ascending({s \in AllSubtasks(doc) :
                 /\ ExtractParentId(doc[s]) = NoId
                 /\ p < s
                 /\ \A o \in AllParentTasks(doc) : ~(o > p /\ o < s)})
  IN [parent |-> doc[p],
      subtasks |-> PushNew([k \in 1..Len(byId) |-> doc[byId[k]]],
                           [k \in 1..Len(legacy) |-> doc[legacy[k]]])]

\* The time blocks "HH:MM - HH:MM" a line can carry, in minutes: tb is the
\* number of the block, 0 when the line has none.
TimeBlocks ==
  <<[start |-> 540, end |-> 600], [start |-> 540, end |-> 660], [start |-> 600, end |-> 630]>>

\* getTaskSortKey(taskLine); start and end of a line without block are
\* Infinity, which the comparators never compare with a number
GetTaskSortKey(l) ==
  IF l.tb # 0
  THEN [hasTime |-> TRUE, start |-> TimeBlocks[l.tb].start, end |-> TimeBlocks[l.tb].end]
  ELSE [hasTime |-> FALSE, start |-> 0, end |-> 0]

\* the comparator that looks at the start only
SortsBeforeByStart(a, b) ==
  LET ka == GetTaskSortKey(a)
      kb == GetTaskSortKey(b)
  IN IF ka.hasTime /\ ~kb.hasTime THEN TRUE
     ELSE IF ~ka.hasTime /\ kb.hasTime THEN FALSE
     ELSE ka.start < kb.start

\* The comparator of the sorts is negative: a has to stand before b.
SortsBefore(a, b) ==
  LET ka == GetTaskSortKey(a)
      kb == GetTaskSortKey(b)
  IN IF ka.hasTime /\ ~kb.hasTime THEN TRUE
     ELSE IF ~ka.hasTime /\ kb.hasTime THEN FALSE
     ELSE IF ka.start # kb.start THEN ka.start < kb.start
     ELSE ka.end < kb.end

\* Array.prototype.sort with that comparator (a stable sort)
RECURSIVE SortGroups(_)
SortGroups(gs) ==
  IF gs = <<>> THEN <<>>
  ELSE LET m == CHOOSE i \in 1..Len(gs) :
                  /\ \A j \in 1..Len(gs) : ~SortsBefore(gs[j].parent, gs[i].parent)
                  /\ \A j \in 1..(i - 1) : SortsBefore(gs[j].parent, gs[i].parent)
                                           \/ SortsBefore(gs[i].parent, gs[j].parent)
       IN <<gs[m]>> \o SortGroups(SubSeq(gs, 1, m - 1) \o SubSeq(gs, m + 1, Len(gs)))

\* result.push(group.parent) and its subtasks, for each group
RECURSIVE GroupLines(_)
GroupLines(gs) ==
  IF gs = <<>> THEN <<>>
  ELSE <<gs[1].parent>> \o gs[1].subtasks \o GroupLines(Tail(gs))

\* sortContent(content)
SortContent(doc) ==
  LET parents == Ascending(AllParentTasks(doc))
      taskGroups == [k \in 1..Len(parents) |-> TaskGroup(doc, parents[k])]
      incompleteGroups == SortGroups(SelectSeq(taskGroups, LAMBDA g: ~IsCompleted(g.parent)))
      completedGroups == SortGroups(SelectSeq(taskGroups, LAMBDA g: IsCompleted(g.parent)))
      firstTaskIndex == IF parents = <<>> THEN 1 ELSE parents[1]
      lastTaskIndex == IF parents = <<>> THEN 1
                       ELSE CHOOSE x \in AllParentTasks(doc) \cup AllSubtasks(doc) :
                              \A y \in AllParentTasks(doc) \cup AllSubtasks(doc) : y <= x
      before == Ascending({i \in OtherLines(doc) : i < firstTaskIndex})
      after == Ascending({i \in OtherLines(doc) : i > lastTaskIndex})
      active == [k \in 1..Len(before) |-> doc[before[k]]]
                \o GroupLines(incompleteGroups)
                \o [k \in 1..Len(after) |-> doc[after[k]]]
      allCompleted == SortGroups(completedGroups \o CompletedTasks(doc, 1, <<>>))
      out == IF allCompleted = <<>> THEN active
             ELSE PopBlankLines(active) \o <<Blank, CompletedHeading>>
                  \o GroupLines(allCompleted)
  IN IF out = <<>> THEN <<Blank>> ELSE out

(***************************************************************************)
(* TaskSorter.sortByTimeBlock                                              *)
(***************************************************************************)
\* the whole subtask run after line i
RunSubtasks(doc, i) == SubSeq(doc, i + 1, RunEnd(doc, i))

\* The lines of the subtask run after line i that the item of line i takes:
\* those without parent tag and those whose parent tag is the item's id.
ItemSubtasks(doc, i) ==
  LET taken == Ascending({j \in (i + 1)..RunEnd(doc, i) :
                  \/ ExtractParentId(doc[j]) = NoId
                  \/ ExtractParentId(doc[j]) = ExtractId(doc[i])})
  IN [k \in 1..Len(taken) |-> doc[taken[k]]]

\* The while loop: the items with and without time block and the lines of
\* the archive callout.
RECURSIVE TimeBlockScan(_, _, _, _)
TimeBlockScan(doc, i, inArchive, acc) ==
  IF i > Len(doc) THEN acc
  ELSE LET line == doc[i]
       IN IF IsArchiveHeader(line)
          THEN TimeBlockScan(doc, i + 1, TRUE, [acc EXCEPT !.archived = Append(@, line)])
          ELSE IF inArchive /\ (IsArchiveLine(line) \/ IsBlank(line))
          THEN TimeBlockScan(doc, i + 1, TRUE, [acc EXCEPT !.archived = Append(@, line)])
          ELSE IF IsParentTask(line)
          THEN LET item == [parent |-> line, subtasks |-> ItemSubtasks(doc, i)]
               IN TimeBlockScan(doc, RunEnd(doc, i) + 1, FALSE,
                    IF line.tb # 0 THEN [acc EXCEPT !.scheduled = Append(@, item)]
                    ELSE [acc EXCEPT !.unscheduled = Append(@, item)])
          ELSE IF IsCalendarEvent(line)
          THEN LET item == [parent |-> line, subtasks |-> <<>>]
               IN TimeBlockScan(doc, i + 1, FALSE,
                    IF line.tb # 0 THEN [acc EXCEPT !.scheduled = Append(@, item)]
                    ELSE [acc EXCEPT !.unscheduled = Append(@, item)])
          ELSE TimeBlockScan(doc, i + 1, FALSE, acc)

\* sortByTimeBlock(content)
SortByTimeBlock(doc) ==
  LET acc == TimeBlockScan(doc, 1, FALSE,
               [scheduled |-> <<>>, unscheduled |-> <<>>, archived |-> <<>>])
      out == GroupLines(SortGroups(acc.scheduled))
             \o (IF acc.unscheduled # <<>> /\ acc.scheduled # <<>> THEN <<Blank>> ELSE <<>>)
             \o GroupLines(acc.unscheduled)
             \o (IF acc.archived # <<>> THEN <<Blank>> \o acc.archived ELSE <<>>)
  IN IF out = <<>> THEN <<Blank>> ELSE out

(***************************************************************************)
(* BulkScheduler.scheduleAllOverdueTo                                      *)
(***************************************************************************)
\* INCOMPLETE_TASK_PATTERN /^[\t]*- \[ \]/
IsIncompleteTask(l) == IsTask(l) /\ l.mk = " "

\* findOverdueTasks, for one note: the lines collected from it
OverdueLines(doc) ==
  {i \in 1..Len(doc) : IsIncompleteTask(doc[i]) /\ ~IsCalendarEvent(doc[i])}

\* The members of a set of line numbers in descending order
\* (tasks.sort((a, b) => b.lineNum - a.lineNum)).
RECURSIVE Descending(_)
Descending(S) ==
  IF S = {} THEN <<>>
  ELSE LET m == CHOOSE x \in S : \A y \in S : y <= x
       IN <<m>> \o Descending(S \ {m})

\* The loop over the tasks of one source note: r.src are the source's lines,
\* r.tc the target content, r.ns the task notes.
RECURSIVE BulkTasks(_, _, _, _)
BulkTasks(todo, fromDate, toDate, r) ==
  IF todo = <<>> THEN r
  ELSE LET line == r.src[todo[1]]
           taskId == ExtractId(line)
           at == IF taskId = NoId THEN 0 ELSE FindById(r.tc, taskId)
           tc == IF at # 0
                 THEN [r.tc EXCEPT ![at] = UpdateExistingCopy(r.tc[at], fromDate)]
                 ELSE TrimEnd(r.tc) \o <<CreateScheduledTaskCopy(line, fromDate)>>
       IN BulkTasks(Tail(todo), fromDate, toDate,
            [src |-> [r.src EXCEPT ![todo[1]] = MarkTaskAsScheduled(line, toDate)],
             tc |-> tc,
             count |-> r.count + 1,
             ns |-> UpdateTaskNoteSourceFile(r.ns, ExtractTaskTextFromLine(line),
                                             toDate, toDate)])

\* The loop over the source notes, each written when its tasks are done.
RECURSIVE BulkFiles(_, _, _)
BulkFiles(srcs, toDate, r) ==
  IF srcs = <<>> THEN r
  ELSE LET d == srcs[1]
           one == BulkTasks(Descending(OverdueLines(r.ds[d])), d, toDate,
                            [src |-> r.ds[d], tc |-> r.tc, ns |-> r.ns, count |-> r.count])
       IN BulkFiles(Tail(srcs), toDate,
                    [ds |-> [r.ds EXCEPT ![d] = one.src], tc |-> one.tc, ns |-> one.ns,
                     count |-> one.count])

\* what a call of scheduleAllOverdueTo did: its argument, the date it wrote
\* to and the count it returned
BulkCall(targetDate, toDate, count) ==
  [op |-> "bulk", src |-> NoDate, n |-> 0, tgt |-> toDate, ok |-> TRUE, line |-> Blank,
   notice |-> "Scheduled overdue tasks", targetDate |-> targetDate, count |-> count]

\* scheduleAllOverdueTo(app, settings, targetDate): the notes dated before
\* targetDate are the sources; toDate is targetDate.toISOString().split('T')[0],
\* the date of the UTC instant of the local midnight, which west of Greenwich
\* is targetDate and east of it the day before.  The target is written last.
ScheduleAllOverdueTo(targetDate, toDate) ==
  LET srcs == {d \in files : d < targetDate /\ OverdueLines(docs[d]) # {}}
      r == BulkFiles(Ascending(srcs), toDate,
                     [ds |-> docs, tc |-> Content(toDate), ns |-> notes, count |-> 0])
  IN /\ toDate \in {targetDate - 1, targetDate} \cap Dates
     /\ IF srcs = {}
        THEN /\ ret' = Rejected("bulk", "No overdue tasks found")
             /\ UNCHANGED <<files, docs, notes>>
        ELSE /\ files' = files \cup {toDate}
             /\ docs' = [r.ds EXCEPT ![toDate] = r.tc]
             /\ notes' = r.ns
             /\ ret' = BulkCall(targetDate, toDate, r.count)
     /\ calls' = calls + 1
     /\ undo' = NoUndo
     /\ UNCHANGED fwd

(***************************************************************************)
(* TaskNoteManager: status sync from the task note to its source           *)
(***************************************************************************)
\* what statusToCheckbox returns under the default statusMappings
StatusMarkers == {" ", "x", "/", "-", ">"}

\* updateTaskCheckbox(content, taskId, newMarker)
UpdateTaskCheckbox(doc, taskId, newMarker) ==
  IF FindById(doc, taskId) = 0 THEN doc
  ELSE [doc EXCEPT ![FindById(doc, taskId)] = SetMarker(@, newMarker)]

\* syncStatusToSource(app, taskNote, settings) for the note of task text t
\* whose frontmatter holds taskId and a status that maps to targetMarker
SyncStatusToSource(t, taskId, targetMarker) ==
  /\ notes[t].ex
  /\ notes[t].sourceFile \in files
  /\ LET source == notes[t].sourceFile
         at == FindById(docs[source], taskId)
     IN IF at # 0 /\ IsTask(docs[source][at]) /\ docs[source][at].mk = targetMarker
        THEN UNCHANGED docs
        ELSE docs' = [docs EXCEPT ![source] = UpdateTaskCheckbox(@, taskId, targetMarker)]
  /\ ret' = Call("status", notes[t].sourceFile, 0, NoDate, Blank, "")
  /\ calls' = calls + 1
  /\ undo' = NoUndo
  /\ UNCHANGED <<files, notes, fwd>>

(***************************************************************************)
(* TaskNoteManager: the status and the subtasks of a task note             *)
(***************************************************************************)
\* settings.statusMappings, in the order of its entries
StatusMappings ==
  <<[marker |-> " ", name |-> "incomplete"], [marker |-> "x", name |-> "complete"],
    [marker |-> "X", name |-> "complete"], [marker |-> "/", name |-> "in-progress"],
    [marker |-> "-", name |-> "cancelled"], [marker |-> ">", name |-> "scheduled"]>>

StatusNames == {StatusMappings[k].name : k \in DOMAIN StatusMappings}

\* checkboxToStatus(marker, settings)
CheckboxToStatus(marker) ==
  IF \E k \in DOMAIN StatusMappings : StatusMappings[k].marker = marker
  THEN StatusMappings[CHOOSE k \in DOMAIN StatusMappings : StatusMappings[k].marker = marker].name
  ELSE "incomplete"

\* statusToCheckbox(status, settings): the first entry with that name
StatusToCheckbox(status) ==
  IF \E k \in DOMAIN StatusMappings : StatusMappings[k].name = status
  THEN StatusMappings[CHOOSE k \in DOMAIN StatusMappings :
                        /\ StatusMappings[k].name = status
                        /\ \A j \in DOMAIN StatusMappings :
                             StatusMappings[j].name = status => k <= j].marker
  ELSE " "

\* text.toLowerCase() on the subtask texts of the model
ToLowerCase(text) == IF text = "A" THEN "a" ELSE text

\* a line of the "## Subtasks" section of a task note: "- [x] text"
NoteSubtask(text, completed) == [text |-> text, completed |-> completed]

\* /^(\s*)- \[[ x]\]\s*(.+)$/: a checkbox line, open or completed, with
\* something after the checkbox
IsPlainTask(l) ==
  IsTask(l) /\ l.mk \in {" ", "x"} /\ (l.tb # 0 \/ l.txt # "" \/ l.tags # <<>>)

\* the first line with the task text of the note, 0 when there is none
FindTaskLine(doc, taskText) ==
  IF \E i \in 1..Len(doc) : IsPlainTask(doc[i]) /\ doc[i].txt = taskText
  THEN CHOOSE i \in 1..Len(doc) :
         /\ IsPlainTask(doc[i]) /\ doc[i].txt = taskText
         /\ \A j \in 1..(i - 1) : ~(IsPlainTask(doc[j]) /\ doc[j].txt = taskText)
  ELSE 0

\* line.match(/^(\s*)/)[1].length: the quote prefix is no whitespace
IndentOf(l) == IF l.q THEN 0 ELSE l.ind

\* getSubtasksFromSource: the loop from line i on, under a parent indented
\* by parentIndent
RECURSIVE SubtasksFrom(_, _, _)
SubtasksFrom(doc, i, parentIndent) ==
  IF i > Len(doc) THEN <<>>
  ELSE LET line == doc[i]
       IN IF ~IsPlainTask(line)
          THEN (IF IndentOf(line) <= parentIndent /\ ~IsBlank(line) THEN <<>>
                ELSE SubtasksFrom(doc, i + 1, parentIndent))
          ELSE IF line.ind > parentIndent
          THEN (IF line.txt # "" THEN <<NoteSubtask(line.txt, line.mk = "x")>> ELSE <<>>)
               \o SubtasksFrom(doc, i + 1, parentIndent)
          ELSE <<>>

\* getSubtasksFromSource(app, sourceFilePath, parentTaskText)
GetSubtasksFromSource(doc, parentTaskText) ==
  LET p == FindTaskLine(doc, parentTaskText)
  IN IF p = 0 THEN <<>> ELSE SubtasksFrom(doc, p + 1, doc[p].ind)

\* syncSubtasksToTaskNote: the subtasks of the note after the merge
MergedSubtasks(existing, sourceSubtasks) ==
  existing \o SelectSeq(sourceSubtasks,
                LAMBDA st : ~\E k \in 1..Len(existing) :
                              ToLowerCase(existing[k].text) = ToLowerCase(st.text))

\* syncSubtasksBackToSource: the last line of the block under line p, the
\* empty lines skipped
RECURSIVE SubtaskEnd(_, _, _, _)
SubtaskEnd(doc, i, parentIndent, end) ==
  IF i > Len(doc) THEN end
  ELSE IF IsBlank(doc[i]) THEN SubtaskEnd(doc, i + 1, parentIndent, end)
  ELSE IF IndentOf(doc[i]) > parentIndent THEN SubtaskEnd(doc, i + 1, parentIndent, i)
  ELSE end

\* the source a task note's subtasks are written back to: the block under the
\* parent line is replaced by the subtasks of the note
SubtasksBack(doc, taskText, taskNoteSubtasks) ==
  LET p == FindTaskLine(doc, taskText)
      end == SubtaskEnd(doc, p + 1, doc[p].ind, p)
  IN IF taskNoteSubtasks = <<>> \/ p = 0 THEN doc
     ELSE SubSeq(doc, 1, p)
          \o [k \in 1..Len(taskNoteSubtasks) |->
                TaskLine(1, IF taskNoteSubtasks[k].completed THEN "x" ELSE " ", 0,
                         taskNoteSubtasks[k].text, <<>>, FALSE)]
          \o SubSeq(doc, end + 1, Len(doc))

(***************************************************************************)
(* The text commands on an open note                                       *)
(***************************************************************************)
MaxEdits == 2      \* commands run, per behaviour of SpecText

\* Top-level lines: an open task with and without id, a completed one with a
\* time block, one that carries two parent tags, one whose content is its id
\* tag alone, one scheduled away under the legacy tag, a calendar event.
TextParents ==
  {TaskLine(0, " ", 0, "T", <<Tag("id", 1)>>, FALSE),
   TaskLine(0, " ", 0, "T", <<>>, FALSE),
   TaskLine(0, "x", 2, "T", <<Tag("id", 1)>>, FALSE),
   TaskLine(0, " ", 1, "T", <<Tag("parent", 1), Tag("parent", 1)>>, FALSE),
   TaskLine(0, " ", 0, "", <<Tag("id", 1)>>, FALSE),
   TaskLine(0, ">", 0, "T", <<Tag("id", 1), Tag("lto", 2)>>, FALSE),
   TaskLine(0, "c", 1, "T", <<>>, FALSE)}

\* Indented lines: an open subtask without tags, a completed one linked to
\* id 1, an open one linked to an id no line has, a calendar event.
TextSubtasks ==
  {TaskLine(1, " ", 0, "", <<>>, FALSE),
   TaskLine(1, "x", 0, "T", <<Tag("parent", 1)>>, FALSE),
   TaskLine(1, " ", 0, "T", <<Tag("parent", 3)>>, FALSE),
   TaskLine(1, "c", 0, "T", <<>>, FALSE)}

\* What stands between a task and a subtask
TextBetween == {Other("heading"), Other("text"), Blank, CompletedHeading}

\* The open note: a top-level line, a line of another kind, a subtask; a
\* top-level line between two subtasks; or a top-level line above an archive
\* callout.
TextNotes ==
  {<<p, m, c>> : p \in TextParents, m \in TextBetween, c \in TextSubtasks}
  \cup {<<c, p, c>> : c \in TextSubtasks, p \in TextParents}
  \cup {<<p, ArchiveHeader, Quote(TaskLine(0, "x", 0, "T", <<Tag("id", 1)>>, FALSE)), Blank>> :
           p \in TextParents}

InitText ==
  /\ files = {1, 2}
  /\ \E d1 \in TextNotes :
       docs = [d \in Dates |-> IF d = 1 THEN d1 ELSE <<Blank>>]
  /\ notes = [t \in Texts |->
                [ex |-> TRUE, sourceFile |-> 1, scheduled |-> NoDate, link |-> 1]]
  /\ ret = Rejected("none", "")
  /\ calls = 0
  /\ fwd = [id \in Ids \cup GenIds |-> [d \in Dates |-> NoDate]]
  /\ undo = NoUndo
  /\ plugin = Loaded

\* editor.setValue(updated) when the transform changed the content
SetValue(op, d, updated) ==
  /\ docs' = [docs EXCEPT ![d] = updated]
  /\ ret' = Call(op, d, 0, NoDate, Blank, "")
  /\ calls' = calls + 1
  /\ undo' = NoUndo
  /\ UNCHANGED <<files, notes, fwd>>

\* the command "Assign IDs to all tasks in current file"
AssignIdsCommand ==
  /\ calls < MaxEdits
  /\ \E d \in files : \E gen \in [LinesWithoutId(docs[d]) -> GenIds] :
       SetValue("assign", d, ProcessContent(docs[d], gen))
  /\ UNCHANGED plugin

\* the command "Link subtasks to parent tasks in current file": the ids are
\* assigned first, then the subtasks are linked
LinkCommand ==
  /\ calls < MaxEdits
  /\ \E d \in files : \E gen \in [LinesWithoutId(docs[d]) -> GenIds] :
       SetValue("link", d, LinkContent(ProcessContent(docs[d], gen)))
  /\ UNCHANGED plugin

\* the command "Sort tasks chronologically in current file"
SortCommand ==
  /\ calls < MaxEdits
  /\ \E d \in files : SetValue("sort", d, SortContent(docs[d]))
  /\ UNCHANGED plugin

\* the command "Sort by time block"
SortByTimeBlockCommand ==
  /\ calls < MaxEdits
  /\ \E d \in files : SetValue("timesort", d, SortByTimeBlock(docs[d]))
  /\ UNCHANGED plugin

\* the command "Archive completed/scheduled tasks now"
ArchiveTextCommand ==
  /\ calls < MaxEdits
  /\ \E d \in files : ArchiveTasks(d)
  /\ UNCHANGED plugin

\* the cursor leaves line n of the open note: processLineOnLeave(n)
CursorLeave ==
  /\ calls < MaxEdits
  /\ \E d \in files : \E n \in 1..Len(docs[d]) :
     \E g \in IF n \in LinesWithoutId(docs[d]) THEN GenIds ELSE {NoId} :
       /\ docs' = [docs EXCEPT ![d][n] = ProcessLine(docs[d], n, g)]
       /\ ret' = Call("leave", d, n, NoDate, docs[d][n], "")
       /\ calls' = calls + 1
       /\ undo' = NoUndo
       /\ UNCHANGED <<files, notes, fwd>>
  /\ UNCHANGED plugin

\* a task note is modified: its status is synced to its source note
StatusSync ==
  /\ calls < MaxEdits
  /\ \E t \in Texts, id \in Ids \cup GenIds, m \in StatusMarkers :
       SyncStatusToSource(t, id, m)
  /\ UNCHANGED plugin

\* scheduleTask on a line of the open note, to another note
ScheduleText ==
  /\ calls < MaxEdits
  /\ \E src \in files : \E n \in 1..Len(docs[src]), tgt \in Dates :
       tgt # src /\ ScheduleTask(src, n, tgt)
  /\ UNCHANGED plugin

UnscheduleText ==
  /\ calls < MaxEdits
  /\ \E src \in files : \E n \in 1..Len(docs[src]) : UnscheduleTask(src, n)
  /\ UNCHANGED plugin

\* the commands "Schedule all overdue tasks to today / to this note's date"
BulkCommand ==
  /\ calls < MaxEdits
  /\ \E targetDate \in Dates, toDate \in Dates : ScheduleAllOverdueTo(targetDate, toDate)
  /\ UNCHANGED plugin

NextText ==
  \/ AssignIdsCommand \/ LinkCommand \/ SortCommand \/ SortByTimeBlockCommand
  \/ ArchiveTextCommand \/ CursorLeave \/ StatusSync
  \/ ScheduleText \/ UnscheduleText \/ BulkCommand

SpecText == InitText /\ [][NextText]_vars

\* The commands that rewrite the open note alone
NextEdit ==
  \/ AssignIdsCommand \/ LinkCommand \/ SortCommand \/ SortByTimeBlockCommand
  \/ ArchiveTextCommand \/ CursorLeave \/ StatusSync

SpecEdit == InitText /\ [][NextEdit]_vars

(***************************************************************************)
(* The handlers of the plugin: notifications, guard flags, debounce timers *)
(***************************************************************************)
MaxEvents == 2     \* what the user does, per behaviour of SpecSync

\* the delays of the setTimeout calls, in steps of 50 ms
DebounceDelay == 10
SyncingDelay == 2
ProcessingDelay == 1
IcsDelay == 2

\* the task notes of the vault, by the task text that names them, and the
\* path of any daily note
TaskNotes == {"T", "U"}
DailyPath == "daily"

\* a 'modify' notification of the vault; by says whose write it reports
Modified(path, by) == [path |-> path, by |-> by]

\* what a handler did: ret of a step that is no call of a command
Event(op, path) ==
  [op |-> op, src |-> NoDate, n |-> 0, tgt |-> NoDate, ok |-> TRUE, line |-> Blank,
   notice |-> "", path |-> path]

\* map.set(key, value) and map.delete(key)
MapSet(map, key, value) ==
  [k \in DOMAIN map \cup {key} |-> IF k = key THEN value ELSE map[k]]
MapDelete(map, key) == [k \in DOMAIN map \ {key} |-> map[k]]

\* the handle setTimeout returns: the smallest number no pending timeout has
NextHandle(pl) ==
  CHOOSE h \in 1..(Cardinality(pl.timeouts) + 1) :
    /\ \A x \in pl.timeouts : x.id # h
    /\ \A k \in 1..(h - 1) : \E x \in pl.timeouts : x.id = k

\* setTimeout(run, delay) and clearTimeout(handle)
SetTimeout(pl, run, path, delay) ==
  [pl EXCEPT !.timeouts = @ \cup {[id |-> NextHandle(pl), run |-> run, path |-> path,
                                   left |-> delay]}]
ClearTimeout(pl, handle) == [pl EXCEPT !.timeouts = {x \in @ : x.id # handle}]

\* the handler that sets a timer and leaves the timer it set before running
OnModifyKeepTimer(pl, path) ==
  IF pl.isProcessing \/ path \notin TaskNotes \/ pl.taskNoteSyncing THEN pl
  ELSE [SetTimeout(pl, "sync", path, DebounceDelay) EXCEPT
          !.taskNoteSyncTimers = MapSet(@, path, NextHandle(pl))]

\* vault.on('modify'): dropped while isProcessing; for a task note, unless
\* taskNoteSyncing, the timer of its path is cleared and set anew; for any
\* other file nothing is done
OnModify(pl, path) ==
  IF pl.isProcessing \/ path \notin TaskNotes \/ pl.taskNoteSyncing THEN pl
  ELSE LET cleared == IF path \in DOMAIN pl.taskNoteSyncTimers
                      THEN ClearTimeout(pl, pl.taskNoteSyncTimers[path])
                      ELSE pl
       IN [SetTimeout(cleared, "sync", path, DebounceDelay) EXCEPT
             !.taskNoteSyncTimers = MapSet(@, path, NextHandle(cleared))]

\* what is known of the burst of path once one more of its notifications is
\* taken up: no time has passed since the last one
Burst(quiet, path) ==
  [ticks |-> 0, events |-> IF path \in DOMAIN quiet THEN quiet[path].events + 1 ELSE 1]

\* a notification is delivered
ModifyHandler ==
  \E e \in plugin.modified :
    LET took == ~plugin.isProcessing /\ ~plugin.taskNoteSyncing /\ e.path \in TaskNotes
        pl == OnModify([plugin EXCEPT !.modified = @ \ {e}], e.path)
    IN /\ plugin' = [pl EXCEPT !.quiet = IF took THEN MapSet(@, e.path, Burst(@, e.path))
                                          ELSE @]
       /\ ret' = Event("modify", e.path)
       /\ UNCHANGED <<files, docs, notes, calls, fwd, undo>>

\* syncStatusToSource: the source after the sync of a note that declares
\* taskId and a status whose marker is targetMarker
SourceAfterStatusSync(doc, taskId, targetMarker) ==
  LET at == FindById(doc, taskId)
  IN IF at # 0 /\ IsTask(doc[at]) /\ doc[at].mk = targetMarker THEN doc
     ELSE UpdateTaskCheckbox(doc, taskId, targetMarker)

\* what the two syncs of the timer callback make of the source of note t
SourceAfterSync(t) ==
  LET note == notes[t]
      back == SubtasksBack(docs[note.sourceFile], t, note.subtasks)
  IN SourceAfterStatusSync(back, note.taskId, StatusToCheckbox(note.status))

\* the callback of a debounce timer: the entry of the path is deleted,
\* taskNoteSyncing is set, the subtasks and then the status of the note are
\* written to its source, and taskNoteSyncing is reset 100 ms later
TaskNoteSync ==
  \E x \in plugin.timeouts :
    /\ x.run = "sync" /\ x.left = 0
    /\ LET t == x.path
           src == notes[t].sourceFile
           synced == notes[t].ex /\ src \in files
           fired == [plugin EXCEPT !.timeouts = @ \ {x},
                                   !.taskNoteSyncTimers = MapDelete(@, t),
                                   !.quiet = MapDelete(@, t),
                                   !.taskNoteSyncing = TRUE]
           written == synced /\ SourceAfterSync(t) # docs[src]
       IN /\ docs' = IF synced THEN [docs EXCEPT ![src] = SourceAfterSync(t)] ELSE docs
          /\ plugin' = [SetTimeout(fired, "syncDone", t, SyncingDelay) EXCEPT
                          !.modified = IF written THEN @ \cup {Modified(DailyPath, "sync")}
                                       ELSE @]
          /\ ret' = Event("sync", t)
          /\ UNCHANGED <<files, notes, calls, fwd, undo>>

\* setTimeout(() => { this.taskNoteSyncing = false; }, 100)
ResetTaskNoteSyncing ==
  \E x \in plugin.timeouts :
    /\ x.run = "syncDone" /\ x.left = 0
    /\ plugin' = [plugin EXCEPT !.timeouts = @ \ {x}, !.taskNoteSyncing = FALSE]
    /\ ret' = Event("syncDone", x.path)
    /\ UNCHANGED <<files, docs, notes, calls, fwd, undo>>

\* the callback that takes its timeout away and leaves isProcessing set
ResetProcessingNot ==
  \E x \in plugin.timeouts :
    /\ x.run = "processed" /\ x.left = 0
    /\ plugin' = [plugin EXCEPT !.timeouts = @ \ {x}]
    /\ ret' = Event("processed", x.path)
    /\ UNCHANGED <<files, docs, notes, calls, fwd, undo>>

\* setTimeout(() => { this.isProcessing = false; }, 50), and the same
\* callback set with 100 ms by the file-open handler
ResetProcessing ==
  \E x \in plugin.timeouts :
    /\ x.run = "processed" /\ x.left = 0
    /\ plugin' = [plugin EXCEPT !.timeouts = @ \ {x}, !.isProcessing = FALSE]
    /\ ret' = Event("processed", x.path)
    /\ UNCHANGED <<files, docs, notes, calls, fwd, undo>>

\* 50 ms pass: no timeout is due and every pending one comes 50 ms nearer.
\* vault.modify triggers 'modify' when its write is done, so only the
\* notification of an editor change, which is saved later, waits that long.
Tick ==
  /\ plugin.timeouts # {}
  /\ \A e \in plugin.modified : e.by = "leave"
  /\ \A x \in plugin.timeouts : x.left > 0
  /\ plugin' = [plugin EXCEPT
                  !.timeouts = {[x EXCEPT !.left = @ - 1] : x \in @},
                  !.quiet = [p \in DOMAIN @ |->
                               IF @[p].ticks <= DebounceDelay
                               THEN [@[p] EXCEPT !.ticks = @ + 1] ELSE @[p]]]
  /\ ret' = Event("tick", "")
  /\ UNCHANGED <<files, docs, notes, calls, fwd, undo>>

\* the markers a user types
TypedMarkers == {" ", "x", "X", "/"}

\* the user changes the checkbox of a task line that carries an id
EditMarker ==
  /\ calls < MaxEvents
  /\ \E d \in files : \E n \in 1..Len(docs[d]) : \E m \in TypedMarkers :
       /\ IsTask(docs[d][n]) /\ ExtractId(docs[d][n]) # NoId /\ docs[d][n].mk # m
       /\ docs' = [docs EXCEPT ![d][n] = SetMarker(@, m)]
       /\ plugin' = [plugin EXCEPT !.modified = @ \cup {Modified(DailyPath, "user")}]
       /\ ret' = Event("marker", DailyPath)
  /\ calls' = calls + 1
  /\ UNCHANGED <<files, notes, fwd, undo>>

\* the user changes the status field of a task note
EditStatus ==
  /\ calls < MaxEvents
  /\ \E t \in TaskNotes : \E status \in StatusNames \ {notes[t].status} :
       /\ notes[t].ex
       /\ notes' = [notes EXCEPT ![t].status = status]
       /\ plugin' = [plugin EXCEPT !.modified = @ \cup {Modified(t, "user")}]
       /\ ret' = Event("status", t)
  /\ calls' = calls + 1
  /\ UNCHANGED <<files, docs, fwd, undo>>

\* the files a step has written, as notifications by its name
Written(by) ==
  {Modified(DailyPath, by) : d \in {d \in Dates : docs'[d] # docs[d]}}
  \cup {Modified(t, by) : t \in {t \in TaskNotes : notes'[t] # notes[t]}}

\* scheduleTask from a command: the flags are not touched
ScheduleNotified ==
  /\ calls < MaxEvents
  /\ \E src \in files : \E n \in 1..Len(docs[src]), tgt \in Dates :
       tgt # src /\ ScheduleTask(src, n, tgt)
  /\ plugin' = [plugin EXCEPT !.modified = @ \cup Written("schedule")]

\* processLineOnLeave(n) when it changes the line: isProcessing is set, the
\* line is written, and isProcessing is reset 50 ms later
LeaveNotified ==
  /\ calls < MaxEvents
  /\ \E d \in files : \E n \in 1..Len(docs[d]) :
     \E g \in IF n \in LinesWithoutId(docs[d]) THEN GenIds ELSE {NoId} :
       /\ ProcessLine(docs[d], n, g) # docs[d][n]
       /\ docs' = [docs EXCEPT ![d][n] = ProcessLine(docs[d], n, g)]
       /\ ret' = Call("leave", d, n, NoDate, docs[d][n], "")
  /\ plugin' = [SetTimeout([plugin EXCEPT !.isProcessing = TRUE],
                           "processed", DailyPath, ProcessingDelay) EXCEPT
                  !.modified = @ \cup {Modified(DailyPath, "leave")}]
  /\ calls' = calls + 1
  /\ undo' = NoUndo
  /\ UNCHANGED <<files, notes, fwd>>

\* openOrCreateTaskNote for a task of daily note d whose note exists:
\* syncSubtasksToTaskNote merges the subtasks of the source into the note
OpenTaskNote ==
  /\ calls < MaxEvents
  /\ \E d \in files : \E t \in TaskNotes :
       /\ notes[t].ex
       /\ \E n \in 1..Len(docs[d]) : IsParentTask(docs[d][n]) /\ docs[d][n].txt = t
       /\ notes' = [notes EXCEPT
                      ![t].subtasks = MergedSubtasks(@, GetSubtasksFromSource(docs[d], t)),
                      ![t].sourceFile = d]
       /\ ret' = Event("open", t)
  /\ calls' = calls + 1
  /\ UNCHANGED <<files, docs, fwd, undo>>
  /\ plugin' = [plugin EXCEPT !.modified = @ \cup Written("sync")]

\* what the ICS plugin reports for the date of a note: nothing, or one event
IcsEvents == {<<>>, <<TaskLine(0, "c", 1, "E", <<>>, FALSE)>>}

\* IcsEventSync.syncEventsToNote: the event lines of the ICS plugin first,
\* then the lines of the note that are no calendar events; no events, no
\* change
SyncEventsToNote(doc, icsEvents) ==
  IF icsEvents = <<>> THEN doc
  ELSE icsEvents \o SelectSeq(doc, LAMBDA l : ~IsCalendarEvent(l))

\* workspace.on('file-open') for a daily note: nothing while isProcessing;
\* otherwise isProcessing is set, the events are synced into the note, and
\* isProcessing is reset 100 ms later
FileOpen ==
  /\ calls < MaxEvents
  /\ ~plugin.isProcessing
  /\ \E d \in files : \E icsEvents \in IcsEvents :
       /\ docs' = [docs EXCEPT ![d] = SyncEventsToNote(@, icsEvents)]
       /\ ret' = Event("fileOpen", DailyPath)
  /\ calls' = calls + 1
  /\ UNCHANGED <<files, notes, fwd, undo>>
  /\ plugin' = [SetTimeout([plugin EXCEPT !.isProcessing = TRUE],
                           "processed", DailyPath, IcsDelay) EXCEPT
                  !.modified = @ \cup Written("ics")]

\* The daily note: task T with id 1 and one subtask, task U with id 2.  The
\* note of T holds a subtask list of its own; each status is the one the
\* marker of its task maps to.
SyncMarkers == {" ", "X"}

SyncSubtaskLines ==
  {TaskLine(1, " ", 0, "a", <<Tag("parent", 1)>>, FALSE),
   TaskLine(1, "x", 0, "b", <<>>, FALSE)}

SyncNoteSubtasks ==
  {<<>>, <<NoteSubtask("A", TRUE)>>, <<NoteSubtask("a", FALSE), NoteSubtask("b", TRUE)>>}

TaskNote(taskId, sourceFile, status, subtasks) ==
  [ex |-> TRUE, sourceFile |-> sourceFile, scheduled |-> NoDate, link |-> sourceFile,
   taskId |-> taskId, status |-> status, subtasks |-> subtasks]

InitSync ==
  /\ files = {1}
  /\ \E m \in SyncMarkers, sub \in SyncSubtaskLines, subtasks \in SyncNoteSubtasks :
       /\ docs = [d \in Dates |->
                    IF d = 1
                    THEN <<TaskLine(0, m, 0, "T", <<Tag("id", 1)>>, FALSE), sub,
                           TaskLine(0, " ", 0, "U", <<Tag("id", 2)>>, FALSE)>>
                    ELSE <<Blank>>]
       /\ notes = [t \in TaskNotes |->
                     IF t = "T" THEN TaskNote(1, 1, CheckboxToStatus(m), subtasks)
                     ELSE TaskNote(2, 1, "incomplete", <<>>)]
  /\ ret = Rejected("none", "")
  /\ calls = 0
  /\ fwd = [id \in Ids \cup GenIds |-> [d \in Dates |-> NoDate]]
  /\ undo = NoUndo
  /\ plugin = Loaded

NextSync ==
  \/ EditMarker \/ EditStatus \/ ScheduleNotified \/ LeaveNotified \/ OpenTaskNote
  \/ ModifyHandler \/ TaskNoteSync \/ ResetTaskNoteSyncing \/ ResetProcessing \/ Tick

SpecSync == InitSync /\ [][NextSync]_vars

\* The user edits markers and status fields only.  The handlers run on the
\* event loop: a delivered notification, a due timeout and the passing of
\* time cannot be put off for ever.
NextStatus ==
  \/ EditMarker \/ EditStatus
  \/ ModifyHandler \/ TaskNoteSync \/ ResetTaskNoteSyncing \/ Tick

SpecStatus == InitSync /\ [][NextStatus]_vars

SpecStatusFair ==
  /\ SpecStatus
  /\ WF_vars(ModifyHandler) /\ WF_vars(TaskNoteSync)
  /\ WF_vars(ResetTaskNoteSyncing) /\ WF_vars(Tick)

\* The external events of the event loop: the cursor leaves a line, a daily
\* note is opened, a task note is edited.
NextLoop ==
  \/ LeaveNotified \/ FileOpen \/ EditStatus
  \/ ModifyHandler \/ TaskNoteSync \/ ResetTaskNoteSyncing \/ ResetProcessing \/ Tick

SpecLoop == InitSync /\ [][NextLoop]_vars

SpecLoopFair ==
  /\ SpecLoop
  /\ WF_vars(ModifyHandler) /\ WF_vars(TaskNoteSync)
  /\ WF_vars(ResetTaskNoteSyncing) /\ WF_vars(ResetProcessing) /\ WF_vars(Tick)

(***************************************************************************)
(* The sort commands on notes of several task groups                       *)
(***************************************************************************)
\* the top-level line number k of a note: open or completed, without time
\* block or with one of the three
SortParents(k) ==
  {TaskLine(0, mk, tb, "T", <<Tag("id", k)>>, FALSE) : mk \in {" ", "x"}, tb \in 0..3}

\* a calendar event with a time block
SortEvents == {TaskLine(0, "c", tb, "T", <<>>, FALSE) : tb \in {1, 3}}

\* what stands above the first task: nothing, a text line, or a Completed
\* section that another heading ends
SortHeads ==
  {<<>>, <<Other("text")>>,
   <<CompletedHeading, TaskLine(0, "x", 2, "T", <<Tag("id", 4)>>, FALSE), Other("heading")>>}

\* what stands under the first task: nothing, a subtask linked to it, or a
\* subtask linked to the second task
SortSubtasks ==
  {<<>>, <<TaskLine(1, " ", 0, "T", <<Tag("parent", 1)>>, FALSE)>>,
   <<TaskLine(1, " ", 0, "T", <<Tag("parent", 2)>>, FALSE)>>}

\* what ends the note: nothing or an archive callout
SortTails ==
  {<<>>, <<ArchiveHeader, Quote(TaskLine(0, "x", 1, "T", <<Tag("id", 5)>>, FALSE))>>}

SortNotes ==
  {h \o <<a>> \o c \o <<b, e>> \o t :
     h \in SortHeads, a \in SortParents(1), c \in SortSubtasks,
     b \in SortParents(2) \cup SortEvents, e \in SortParents(3), t \in SortTails}

InitSort ==
  /\ files = {1}
  /\ \E d1 \in SortNotes :
       docs = [d \in Dates |-> IF d = 1 THEN d1 ELSE <<Blank>>]
  /\ notes = [t \in Texts |-> NoNote]
  /\ ret = Rejected("none", "")
  /\ calls = 0
  /\ fwd = [id \in Ids \cup GenIds |-> [d \in Dates |-> NoDate]]
  /\ undo = NoUndo
  /\ plugin = Loaded

NextSort == SortCommand \/ SortByTimeBlockCommand

SpecSort == InitSort /\ [][NextSort]_vars

(***************************************************************************)
(* Ids under every operation                                               *)
(***************************************************************************)
\* the id tags of a line, inside or outside the callout
IdTags(l) == TagValues(l, "id")

\* Line i of note d had an id before the step and stands at its place with
\* the same id tags after it.
KeepsIdsInPlace(d) ==
  \A i \in 1..Len(docs[d]) :
    IdTags(docs[d][i]) # <<>> =>
      i <= Len(docs'[d]) /\ IdTags(docs'[d][i]) = IdTags(docs[d][i])

\* Every checkbox line of note d after the step is a line of d before it, but
\* for the quote prefix and trailing whitespace.
OnlyOldLines(d) ==
  \A i \in 1..Len(docs'[d]) :
    docs'[d][i].kind = "task" =>
      \E j \in 1..Len(docs[d]) : Untrailed(<<Unquote(docs[d][j])>>)
                                   = Untrailed(<<Unquote(docs'[d][i])>>)

\* C11: a task id, once set, is immutable.  The operations that rewrite lines
\* where they stand (assignIds, linkContent, processLineOnLeave with
\* normalizeMetadataOrder, status sync, scheduleTask, scheduleAllOverdueTo)
\* leave the id tags of every line that has one as they are; the operations
\* that move or remove lines (sortContent, sortByTimeBlock, archiveContent,
\* unscheduleTask in the target) put no line into a note that was not there,
\* unscheduleTask leaves the id tags of the source's lines; and the copy
\* scheduleTask appends to the target carries the id of its source line.
C11_IdImmutable ==
  [][ret'.ok =>
       /\ ret'.op \in {"assign", "link", "leave", "status", "schedule", "bulk"} =>
            \A d \in Dates : KeepsIdsInPlace(d)
       /\ ret'.op \in {"sort", "timesort", "archive"} =>
            \A d \in Dates : OnlyOldLines(d)
       /\ ret'.op = "unschedule" =>
            \A d \in Dates : IF d = ret'.src /\ d # ret'.tgt THEN KeepsIdsInPlace(d)
                                                          ELSE OnlyOldLines(d)
       /\ (ret'.op = "schedule" /\ Len(docs'[ret'.tgt]) > Len(docs[ret'.tgt])) =>
            IdTags(docs'[ret'.tgt][Len(docs'[ret'.tgt])]) = IdTags(ret'.line)]_vars

\* the cursor left a line with an id and the line was rewritten
C11_Witness ==
  /\ ret.op = "leave" /\ ret.ok
  /\ IdTags(ret.line) # <<>>
  /\ docs[ret.src][ret.n] # ret.line
  /\ IdTags(docs[ret.src][ret.n]) = IdTags(ret.line)

(***************************************************************************)
(* Second passes of the id manager and the linker                          *)
(***************************************************************************)
\* C12: assignIds and linkContent are idempotent: on the content the command
\* "Assign IDs" has written a second processContent changes nothing whatever
\* generateId returns, and on the content the command "Link subtasks" has
\* written a second linkContent changes nothing.
C12_SecondPassChangesNothing ==
  [][(ret'.ok /\ ret'.op \in {"assign", "link"}) =>
       /\ \A gen \in [LinesWithoutId(docs'[ret'.src]) -> GenIds] :
            ProcessContent(docs'[ret'.src], gen) = docs'[ret'.src]
       /\ ret'.op = "link" => LinkContent(docs'[ret'.src]) = docs'[ret'.src]]_vars

(***************************************************************************)
(* Calendar events                                                         *)
(***************************************************************************)
CalendarLines(doc) == {i \in 1..Len(doc) : IsCalendarEvent(doc[i])}

\* C13: calendar-event lines are excluded from the id, linking and scheduling
\* workflows: assignIds, linkContent, processLineOnLeave, scheduleTask,
\* unscheduleTask and scheduleAllOverdueTo leave every calendar-event line of
\* the notes they write as it is, and scheduleTask is not carried out on such
\* a line, so that none is copied to another note.
C13_CalendarEventsUntouched ==
  [][(ret'.ok /\ ret'.op \in {"assign", "link", "leave", "schedule", "unschedule", "bulk"}) =>
       /\ \A d \in Dates :
            IF ret'.op = "unschedule" /\ d # ret'.src
            THEN Cardinality(CalendarLines(docs'[d])) = Cardinality(CalendarLines(docs[d]))
            ELSE \A i \in CalendarLines(docs[d]) :
                   i <= Len(docs'[d]) /\ docs'[d][i] = docs[d][i]
       /\ ret'.op \in {"schedule", "unschedule"} => ~IsCalendarEvent(ret'.line)]_vars

(***************************************************************************)
(* What the linker fills in                                                *)
(***************************************************************************)
\* The top-level checkbox lines above line i with neither a heading nor
\* another top-level checkbox line between them and line i (one at most).
ScopeParents(doc, i) ==
  {p \in 1..(i - 1) :
     /\ IsParentTask(doc[p])
     /\ \A j \in (p + 1)..(i - 1) : ~IsParentTask(doc[j]) /\ ~IsHeading(doc[j])}

\* C14: linkContent fills exactly the empty parent fields: a subtask with a
\* parent tag keeps its line; a subtask without one that follows a parent
\* task with id P, no heading or other parent task in between, gets
\* [parent::P] appended; a subtask without such a parent stays unlinked; and
\* no other line but a top-level one changes.
C14_LinkFillsEmptyParentFields ==
  \A d \in files :
    LET doc == docs[d]
        out == LinkContent(doc)
    IN /\ Len(out) = Len(doc)
       /\ \A i \in 1..Len(doc) :
            IF ~IsSubtask(doc[i]) THEN IsParentTask(doc[i]) \/ out[i] = doc[i]
            ELSE IF ExtractParentId(doc[i]) # NoId THEN out[i] = doc[i]
            ELSE IF \E p \in ScopeParents(doc, i) : ExtractId(doc[p]) # NoId
            THEN \A p \in ScopeParents(doc, i) :
                   out[i] = AppendTag(doc[i], "parent", ExtractId(doc[p]))
            ELSE out[i] = doc[i]

\* the command has given a subtask an id and then the parent tag of the
\* task above it
C14_Witness ==
  /\ ret.op = "link" /\ ret.ok
  /\ \E i \in 1..Len(docs[ret.src]) :
       LET l == docs[ret.src][i]
       IN /\ IsSubtask(l)
          /\ Len(l.tags) = Cardinality({"id", "parent"})
          /\ l.tags[1].k = "id" /\ l.tags[Len(l.tags)].k = "parent"
          /\ \E p \in ScopeParents(docs[ret.src], i) :
               ExtractId(docs[ret.src][p]) = ExtractParentId(l)

(***************************************************************************)
(* The cursor-leave path against the linker                                *)
(***************************************************************************)
\* C15: headings bound the scope of parent linking in every linking path:
\* when the cursor leaves a subtask line (no calendar event),
\* processLineOnLeave leaves on it the parent id linkContent would leave on it,
\* and so never the id of a parent task that a heading separates from it.
C15_LeaveLinksAsLinkContent ==
  [][(ret'.ok /\ ret'.op = "leave" /\ IsSubtask(ret'.line) /\ ~IsCalendarEvent(ret'.line)) =>
       ExtractParentId(docs'[ret'.src][ret'.n])
         = ExtractParentId(LinkContent(docs[ret'.src])[ret'.n])]_vars

(***************************************************************************)
(* Normalizing twice                                                       *)
(***************************************************************************)
\* C16: normalizeMetadataOrder is idempotent for every task line, lines
\* without text included: the line processLineOnLeave has written is a line
\* normalizeMetadataOrder leaves as it is, so that the next cursor-leave on
\* the unchanged line writes nothing.
C16_NormalizedLineIsFixed ==
  [][(ret'.ok /\ ret'.op = "leave") =>
       /\ NormalizeMetadataOrder(docs'[ret'.src][ret'.n]) = docs'[ret'.src][ret'.n]
       /\ ProcessLine(docs'[ret'.src], ret'.n, NoId) = docs'[ret'.src][ret'.n]]_vars

(***************************************************************************)
(* Legacy schedule tags                                                    *)
(***************************************************************************)
LegacyKinds == {"lfrom", "lto"}

\* the canonical kind of a legacy kind: [sch_to::D] -> [> D], [sch_from::D] -> [< D]
Canonical(k) == IF k = "lto" THEN "to" ELSE "from"

\* C17: legacy schedule tags are normalized on write: when processLineOnLeave,
\* scheduleTask or unscheduleTask rewrites a task line that carries
\* [sch_to::D] or [sch_from::D], no legacy tag remains on the written line,
\* and the line the cursor-leave normalization writes carries [> D] / [< D]
\* with the same date.
C17_LegacyTagsNormalized ==
  [][(/\ ret'.ok /\ ret'.op \in {"leave", "schedule", "unschedule"}
      /\ ret'.src # ret'.tgt
      /\ docs'[ret'.src][ret'.n] # ret'.line) =>
       \A i \in 1..Len(ret'.line.tags) :
         ret'.line.tags[i].k \in LegacyKinds =>
           /\ \A j \in 1..Len(docs'[ret'.src][ret'.n].tags) :
                docs'[ret'.src][ret'.n].tags[j].k \notin LegacyKinds
           /\ ret'.op = "leave" =>
                HasTag(docs'[ret'.src][ret'.n],
                       Canonical(ret'.line.tags[i].k), ret'.line.tags[i].v)]_vars

(***************************************************************************)
(* What the archiver puts where                                            *)
(***************************************************************************)
\* the markers the claim sends into the callout, and those it keeps out
TerminalMarkers == {"x", "X", "-", ">"}
OpenMarkers == {" ", "/"}

\* lines stands in doc as a block of consecutive lines
HasBlock(doc, lines) ==
  \E i \in 0..(Len(doc) - Len(lines)) : SubSeq(doc, i + 1, i + Len(lines)) = lines

QuoteAll(lines) == [k \in 1..Len(lines) |-> Quote(lines[k])]

\* C18 as stated: after archiveContent every checkbox line, parent or
\* subtask, with marker x, X, - or > is inside the archive callout, and every
\* checkbox line with marker ' ' or '/' is outside it unless it was in the
\* callout before.
C18_EveryLineByItsMarker ==
  [][(ret'.ok /\ ret'.op = "archive") =>
       LET doc == docs[ret'.src]
           out == docs'[ret'.src]
       IN \A i \in 1..Len(out) :
            out[i].kind = "task" =>
              /\ out[i].mk \in TerminalMarkers => out[i].q
              /\ (out[i].mk \in OpenMarkers /\ out[i].q) =>
                   \E j \in 1..Len(doc) : doc[j] = out[i]]_vars

\* C18: archiveContent sorts the task groups by the marker of their first
\* line: no top-level checkbox line with marker x, X, - or > is left outside
\* the callout; such a line of the input is inside it together with the run of
\* subtask lines after it, whatever their markers; a top-level line with
\* marker ' ' or '/' is outside it together with its run.
C18_GroupsByFirstLine ==
  [][(ret'.ok /\ ret'.op = "archive") =>
       LET doc == docs[ret'.src]
           out == docs'[ret'.src]
       IN /\ \A i \in 1..Len(out) :
               IsParentTask(out[i]) => out[i].mk \notin TerminalMarkers
          /\ \A j \in 1..Len(doc) :
               IsParentTask(doc[j]) =>
                 /\ doc[j].mk \in TerminalMarkers =>
                      HasBlock(out, QuoteAll(SubSeq(doc, j, RunEnd(doc, j))))
                 /\ doc[j].mk \in OpenMarkers =>
                      HasBlock(out, SubSeq(doc, j, RunEnd(doc, j)))]_vars

\* an archived note with an open subtask inside the callout, under its
\* completed parent
C18_Witness ==
  /\ ret.op = "archive" /\ ret.ok
  /\ \E i \in 1..Len(docs[ret.src]) :
       LET l == docs[ret.src][i]
       IN /\ l.q /\ l.kind = "task" /\ l.ind > 0 /\ l.mk \in OpenMarkers
          /\ i > 1 /\ docs[ret.src][i - 1].q /\ docs[ret.src][i - 1].ind = 0
          /\ docs[ret.src][i - 1].mk \in TerminalMarkers

(***************************************************************************)
(* Lines kept by the text transforms                                       *)
(***************************************************************************)
\* how many times the checkbox line l stands in doc, quoted or not
Occurrences(doc, l) ==
  Cardinality({i \in 1..Len(doc) : doc[i].kind = "task" /\ Unquote(doc[i]) = Unquote(l)})

\* C19: no text transform deletes or duplicates a task line: assignIds and
\* linkContent keep every line at its place, and after sortContent,
\* sortByTimeBlock and archiveContent every checkbox line of the input
\* (subtasks without a parent above them and subtasks whose parent tag matches
\* no parent included) stands in the output as often as in the input.
C19_NoTaskLineLostOrDoubled ==
  [][ret'.ok =>
       LET doc == docs[ret'.src]
           out == docs'[ret'.src]
       IN /\ ret'.op \in {"assign", "link"} =>
               /\ Len(out) = Len(doc)
               /\ \A i \in 1..Len(doc) : out[i].kind = doc[i].kind
          /\ ret'.op \in {"sort", "timesort", "archive"} =>
               \A i \in 1..Len(doc) :
                 doc[i].kind = "task" => Occurrences(out, doc[i]) = Occurrences(doc, doc[i])]_vars

(***************************************************************************)
(* Archiving twice                                                         *)
(***************************************************************************)
\* C20: archiveContent is idempotent: for the content of every note,
\* archiveContent of what archiveContent returns is what it returns; the
\* callout is unwrapped and rebuilt with the same lines in the same order
\* after the same separator.
C20_ArchiveIdempotent ==
  \A d \in Dates :
    ArchiveContent(ArchiveContent(docs[d])) = ArchiveContent(docs[d])

\* the archive command has rebuilt a callout: a newly archived line stands in
\* it before a line it held already, and active lines stand above it
C20_Witness ==
  /\ ret.op = "archive" /\ ret.ok
  /\ LET doc == docs[ret.src]
     IN \E i \in 2..(Len(doc) - 2) :
          /\ IsArchiveHeader(doc[i])
          /\ doc[i + 1].q /\ doc[i + 2].q
          /\ IsBlank(doc[i - 1])
          /\ ~IsBlank(doc[1])

(***************************************************************************)
(* The layout of an archived note                                          *)
(***************************************************************************)
\* line i stands in an existing callout: a "> " line with a header above it
\* and nothing but "> " lines and headers in between
InCallout(doc, i) ==
  /\ doc[i].q
  /\ \E h \in 1..(i - 1) :
       /\ IsArchiveHeader(doc[h])
       /\ \A j \in (h + 1)..(i - 1) : doc[j].q \/ IsArchiveHeader(doc[j])

\* the first line of the run of consecutive subtask lines that holds line i
RunStart(doc, i) ==
  CHOOSE s \in 1..i :
    /\ \A j \in s..i : IsSubtask(doc[j])
    /\ (s = 1 \/ ~IsSubtask(doc[s - 1]))

\* The line whose marker decides where the checkbox line i goes, 0 for the
\* calendar section: a line at the left margin decides for itself and for the
\* run of subtask lines under it; in a run with no such line above it the
\* first line that is no calendar event decides for the rest of the run.
GroupHead(doc, i) ==
  IF doc[i].ind = 0 THEN (IF doc[i].mk = "c" THEN 0 ELSE i)
  ELSE LET s == RunStart(doc, i)
           own == {j \in s..i : doc[j].mk # "c"}
       IN IF s > 1 /\ IsTask(doc[s - 1]) /\ doc[s - 1].mk # "c" THEN s - 1
          ELSE IF own = {} THEN 0
          ELSE CHOOSE j \in own : \A k \in own : j <= k

CalendarSection(doc) == {i \in 1..Len(doc) : IsTask(doc[i]) /\ GroupHead(doc, i) = 0}

NewlyArchived(doc) ==
  {i \in 1..Len(doc) : /\ IsTask(doc[i])
                       /\ GroupHead(doc, i) # 0
                       /\ doc[GroupHead(doc, i)].mk \in TerminalMarkers}

ActiveTaskLines(doc) ==
  {i \in 1..Len(doc) : /\ IsTask(doc[i])
                       /\ GroupHead(doc, i) # 0
                       /\ doc[GroupHead(doc, i)].mk \notin TerminalMarkers}

\* the lines that are no checkbox line, no header and no line of a callout
PlainLines(doc) ==
  {i \in 1..Len(doc) : ~IsTask(doc[i]) /\ ~IsArchiveHeader(doc[i]) /\ ~InCallout(doc, i)}

\* of the plain lines, those that stay: an empty line only below a line that
\* stays in the active part
KeptPlainLines(doc) ==
  {i \in PlainLines(doc) :
     \/ ~IsBlank(doc[i])
     \/ \E j \in 1..(i - 1) :
          j \in ActiveTaskLines(doc) \/ (j \in PlainLines(doc) /\ ~IsBlank(doc[j]))}

\* lines without the empty lines at its end
WithoutBlankEnd(lines) ==
  SubSeq(lines, 1, CHOOSE n \in 0..Len(lines) :
                     /\ \A j \in (n + 1)..Len(lines) : IsBlank(lines[j])
                     /\ (n = 0 \/ ~IsBlank(lines[n])))

\* the layout: calendar section, active part, and when anything is archived
\* seven empty lines (only below a non-empty upper part), the header and the
\* callout with the newly archived lines first
ArchivedLayout(doc) ==
  LET top == KeepLines(doc, CalendarSection(doc), 1)
               \o KeepLines(doc, ActiveTaskLines(doc) \cup KeptPlainLines(doc), 1)
      arch == KeepLines(doc, NewlyArchived(doc), 1)
                \o KeepLines(doc, {i \in 1..Len(doc) : InCallout(doc, i)}, 1)
  IN IF arch = <<>> THEN (IF top = <<>> THEN <<Blank>> ELSE top)
     ELSE (IF top = <<>> THEN <<>>
           ELSE WithoutBlankEnd(top) \o [j \in 1..7 |-> Blank])
          \o <<ArchiveHeader>>
          \o [j \in 1..Len(arch) |-> Quote(arch[j])]

\* C21 as stated: archiveContent puts all calendar-event lines first, in
\* their order, and whenever a line is archived exactly 7 empty lines stand
\* directly above the header.
C21_LayoutAsStated ==
  \A d \in Dates :
    LET doc == docs[d]
        out == ArchiveContent(doc)
        events == {i \in 1..Len(doc) : IsTask(doc[i]) /\ doc[i].mk = "c"}
        n == Cardinality(events)
    IN /\ Len(out) >= n /\ SubSeq(out, 1, n) = KeepLines(doc, events, 1)
       /\ (\E i \in 1..Len(doc) : IsParentTask(doc[i]) /\ doc[i].mk \in TerminalMarkers) =>
            \E h \in 8..Len(out) :
              /\ IsArchiveHeader(out[h])
              /\ \A j \in (h - 7)..(h - 1) : IsBlank(out[j])

\* C21: archiveContent's output is: the calendar-event lines that stand in
\* no task's subtask run, in their order; the active lines in their order
\* (task groups whose first line has marker ' ' or '/', and the other lines,
\* an empty line only below an active line); then, when a line is newly
\* archived or was archived before, 7 empty lines in place of the empty lines
\* that ended the upper part (none when the upper part is empty), the header,
\* and every archived line prefixed "> ", the newly archived ones first. With
\* nothing archived no header is written.
C21_ArchiveLayout ==
  \A d \in Dates : ArchiveContent(docs[d]) = ArchivedLayout(docs[d])

\* the archive command has written a calendar event above seven empty lines,
\* the header and a callout that holds a calendar event of a subtask run
C21_Witness ==
  /\ ret.op = "archive" /\ ret.ok
  /\ LET doc == docs[ret.src]
     IN /\ Len(doc) >= 11
        /\ IsTask(doc[1]) /\ doc[1].mk = "c"
        /\ \A j \in 2..8 : IsBlank(doc[j])
        /\ IsArchiveHeader(doc[9])
        /\ \E k \in 10..Len(doc) : doc[k].q /\ doc[k].kind = "task" /\ doc[k].mk = "c"

(***************************************************************************)
(* The lines sortContent writes that are no tasks                          *)
(***************************************************************************)
\* C22: sortContent never loses a non-task line: every heading and text
\* line of the input outside the Completed section stands in the output,
\* whether it stood before, between or after the tasks.
C22_NoPlainLineLost ==
  [][(ret'.ok /\ ret'.op = "sort") =>
       LET doc == docs[ret'.src]
           out == docs'[ret'.src]
       IN \A i \in 1..Len(doc) :
            (doc[i].kind \in {"heading", "text"} /\ ~doc[i].q /\ ~InCompletedSection(doc, i)) =>
              \E j \in 1..Len(out) : out[j] = doc[i]]_vars

(***************************************************************************)
(* The order sortContent gives the task groups                             *)
(***************************************************************************)
\* the place of the top-level task line l in doc (the lines carry ids)
PlaceOf(doc, l) == CHOOSE i \in 1..Len(doc) : doc[i] = l

\* (a.start, a.end) <= (b.start, b.end), lexicographically
KeyAtMost(a, b) ==
  LET ka == GetTaskSortKey(a)
      kb == GetTaskSortKey(b)
  IN ka.start < kb.start \/ (ka.start = kb.start /\ ka.end <= kb.end)

\* line i of out stands under the heading "## Completed"
UnderCompleted(out, i) == \E h \in 1..(i - 1) : IsCompletedHeading(out[h])

\* sortContent collected a before b: the tasks outside a Completed section
\* in their order, then the tasks of the Completed section in theirs
CollectedBefore(doc, a, b) ==
  LET pa == PlaceOf(doc, a)
      pb == PlaceOf(doc, b)
      ca == InCompletedSection(doc, pa)
      cb == InCompletedSection(doc, pb)
  IN (~ca /\ cb) \/ (ca = cb /\ pa < pb)

\* C23 as stated: in the output of sortContent, of any two task groups the
\* earlier one has the smaller or equal (start, end), no group without time
\* block stands before a group with one, and groups with equal keys stand as
\* they stood in the input.
C23_OneOrderForAllGroups ==
  [][(ret'.ok /\ ret'.op = "sort") =>
       LET doc == docs[ret'.src]
           out == docs'[ret'.src]
       IN \A i, j \in 1..Len(out) :
            (i < j /\ IsParentTask(out[i]) /\ IsParentTask(out[j])) =>
              /\ out[j].tb # 0 => (out[i].tb # 0 /\ KeyAtMost(out[i], out[j]))
              /\ GetTaskSortKey(out[i]) = GetTaskSortKey(out[j]) =>
                   PlaceOf(doc, out[i]) < PlaceOf(doc, out[j])]_vars

\* C23: sortContent orders the groups of the incomplete tasks, and under
\* "## Completed" the groups of the completed ones, each by themselves: of
\* two groups of the same part the earlier one has the smaller or equal
\* (start, end), the groups without time block stand after those with one,
\* and groups with equal keys stand in the order they were collected in. A
\* group stands under "## Completed" when its task is completed or stood there.
C23_OrderWithinEachPart ==
  [][(ret'.ok /\ ret'.op = "sort") =>
       LET doc == docs[ret'.src]
           out == docs'[ret'.src]
       IN \A i, j \in 1..Len(out) :
            (/\ i < j /\ IsParentTask(out[i]) /\ IsParentTask(out[j])
             /\ UnderCompleted(out, i) = UnderCompleted(out, j)) =>
              /\ out[j].tb # 0 => (out[i].tb # 0 /\ KeyAtMost(out[i], out[j]))
              /\ GetTaskSortKey(out[i]) = GetTaskSortKey(out[j]) =>
                   CollectedBefore(doc, out[i], out[j])
              /\ UnderCompleted(out, i) <=>
                   (IsCompleted(out[i]) \/ InCompletedSection(doc, PlaceOf(doc, out[i])))]_vars

\* sortContent has written a group with a time block above a group without
\* one, and under "## Completed" a group whose block starts earlier
C23_Witness ==
  /\ ret.op = "sort" /\ ret.ok
  /\ LET out == docs[ret.src]
     IN \E i, j, k \in 1..Len(out) :
          /\ i < j /\ j < k
          /\ IsParentTask(out[i]) /\ out[i].tb = 3 /\ ~UnderCompleted(out, i)
          /\ IsParentTask(out[j]) /\ out[j].tb = 0 /\ ~UnderCompleted(out, j)
          /\ IsParentTask(out[k]) /\ out[k].tb = 1 /\ UnderCompleted(out, k)

(***************************************************************************)
(* Sorting twice                                                           *)
(***************************************************************************)
\* C24: sortContent is idempotent: for the content of every note,
\* sortContent of what sortContent returns is what it returns, notes whose
\* tasks are all completed and notes with text above the first task included.
C24_SortIdempotent ==
  \A d \in Dates : SortContent(SortContent(docs[d])) = SortContent(docs[d])

(***************************************************************************)
(* The layout sortByTimeBlock writes                                       *)
(***************************************************************************)
\* line i is a line of the archive section: a header, or a "> " line or an
\* empty line with a header above it and only such lines in between
InArchiveSection(doc, i) ==
  \/ IsArchiveHeader(doc[i])
  \/ /\ doc[i].q \/ IsBlank(doc[i])
     /\ \E h \in 1..(i - 1) :
          /\ IsArchiveHeader(doc[h])
          /\ \A j \in (h + 1)..(i - 1) :
               doc[j].q \/ IsBlank(doc[j]) \/ IsArchiveHeader(doc[j])

\* the first lines of the items: the top-level checkbox lines, and the
\* calendar events that stand in no top-level line's subtask run
ItemLines(doc) ==
  {i \in 1..Len(doc) :
     \/ IsTask(doc[i]) /\ doc[i].ind = 0
     \/ /\ IsTask(doc[i]) /\ doc[i].ind > 0 /\ doc[i].mk = "c"
        /\ ~(RunStart(doc, i) > 1 /\ IsTask(doc[RunStart(doc, i) - 1]))}

\* an item: its line and, of the subtask run under a top-level line, the
\* lines that carry no parent tag or the id of that line
ItemGroup(doc, i) ==
  <<doc[i]>> \o
  (IF doc[i].ind > 0 THEN <<>>
   ELSE KeepLines(doc, {j \in (i + 1)..RunEnd(doc, i) :
                          \/ TagValues(doc[j], "parent") = <<>>
                          \/ /\ TagValues(doc[i], "id") # <<>>
                             /\ TagValues(doc[j], "parent")[1].v = TagValues(doc[i], "id")[1].v}, 1))

\* the key of a comes before the key of b
KeyBelow(a, b) ==
  \/ TimeBlocks[a.tb].start < TimeBlocks[b.tb].start
  \/ /\ TimeBlocks[a.tb].start = TimeBlocks[b.tb].start
     /\ TimeBlocks[a.tb].end < TimeBlocks[b.tb].end

\* the place line i of the set T takes when T is sorted by (start, end),
\* equal keys as they stood
PlaceIn(doc, T, i) ==
  1 + Cardinality({j \in T : \/ KeyBelow(doc[j], doc[i])
                             \/ (~KeyBelow(doc[i], doc[j]) /\ j < i)})

RECURSIVE Joined(_)
Joined(groups) == IF groups = <<>> THEN <<>> ELSE groups[1] \o Joined(Tail(groups))

\* the items with a time block in sorted order, then those without in
\* their order, an empty line between the two when both exist
ItemsLayout(doc) ==
  LET timed == {i \in ItemLines(doc) : doc[i].tb # 0}
      untimed == Ascending({i \in ItemLines(doc) : doc[i].tb = 0})
  IN Joined([k \in 1..Cardinality(timed) |->
               ItemGroup(doc, CHOOSE i \in timed : PlaceIn(doc, timed, i) = k)])
     \o (IF timed # {} /\ untimed # <<>> THEN <<Blank>> ELSE <<>>)
     \o Joined([k \in 1..Len(untimed) |-> ItemGroup(doc, untimed[k])])

ArchiveSectionLines(doc) ==
  KeepLines(doc, {i \in 1..Len(doc) : InArchiveSection(doc, i)}, 1)

StatusSource(t) == docs[notes[t].sourceFile]
StatusSynced(t) ==
  SourceAfterStatusSync(StatusSource(t), notes[t].taskId, StatusToCheckbox(notes[t].status))

\* C27: syncStatusToSource leaves the source as it is when the marker of the
\* line that carries the id maps to the status the note declares, and when it
\* writes it changes nothing but the marker of that line.
C27_WritesOnlyOnDifferentStatus ==
  \A t \in TaskNotes :
    (notes[t].ex /\ notes[t].sourceFile \in files) =>
      LET doc == StatusSource(t)
          at == FindById(doc, notes[t].taskId)
      IN /\ (at # 0 /\ IsTask(doc[at]) /\ CheckboxToStatus(doc[at].mk) = notes[t].status)
              => StatusSynced(t) = doc
         /\ Len(StatusSynced(t)) = Len(doc)
         /\ \A i \in 1..Len(doc) :
              StatusSynced(t)[i] # doc[i] =>
                i = at /\ StatusSynced(t)[i] = [doc[i] EXCEPT !.mk = StatusSynced(t)[i].mk]


(***************************************************************************)
(* What the subtask sync keeps                                             *)
(***************************************************************************)
\* every subtask of before has one of its text, the case of letters
\* ignored, in after
SubtasksKept(before, after) ==
  \A k \in 1..Len(before) :
    \E j \in 1..Len(after) : ToLowerCase(after[j].text) = ToLowerCase(before[k].text)

\* C28: neither syncSubtasksToTaskNote nor syncSubtasksBackToSource removes
\* a subtask: what the note listed is listed after the merge into the note,
\* and what stood under the task in the source stands there after the
\* write back to the source.
C28_MergeOnly ==
  \A t \in TaskNotes :
    (notes[t].ex /\ notes[t].sourceFile \in files) =>
      LET doc == docs[notes[t].sourceFile]
          inSource == GetSubtasksFromSource(doc, t)
      IN /\ SubtasksKept(notes[t].subtasks, MergedSubtasks(notes[t].subtasks, inSource))
         /\ SubtasksKept(inSource,
                         GetSubtasksFromSource(SubtasksBack(doc, t, notes[t].subtasks), t))


(***************************************************************************)
(* The status of a task note and the marker of its task line               *)
(***************************************************************************)
\* the marker of the line that carries the taskId of note t maps to the
\* status the note declares
StatusConsistent(t) ==
  LET doc == docs[notes[t].sourceFile]
      at == FindById(doc, notes[t].taskId)
  IN (at # 0 /\ IsTask(doc[at])) => CheckboxToStatus(doc[at].mk) = notes[t].status

\* C26: whenever the marker of a task line and the status of its task note
\* disagree, because either of them was changed, they agree again later.
C26_StatusEventuallyConsistent ==
  \A t \in TaskNotes : (~StatusConsistent(t)) ~> StatusConsistent(t)


(***************************************************************************)
(* The debounce of the task note sync                                      *)
(***************************************************************************)
\* the debounce timers pending for note t
SyncTimers(t) == {x \in plugin.timeouts : x.run = "sync" /\ x.path = t}

\* C29: a task note has at most one pending timer; it has one exactly while
\* a burst of its notifications is open, due 500 ms after the last of them;
\* the sync of a note starts when 500 ms have passed since the last
\* notification of its burst and closes the burst, so a burst starts one
\* sync; a notification of one note leaves the timers of the others alone.
C29_PerNoteDebounce ==
  /\ [](\A t \in TaskNotes :
          /\ Cardinality(SyncTimers(t)) <= 1
          /\ t \in DOMAIN plugin.quiet <=> SyncTimers(t) # {}
          /\ \A x \in SyncTimers(t) :
               /\ x.left + plugin.quiet[t].ticks = DebounceDelay
               /\ plugin.taskNoteSyncTimers[t] = x.id)
  /\ [][/\ ret'.op = "sync" =>
             /\ ret'.path \in DOMAIN plugin.quiet
             /\ plugin.quiet[ret'.path].ticks = DebounceDelay
             /\ ret'.path \notin DOMAIN plugin'.quiet
        /\ ret'.op = "modify" =>
             \A t \in TaskNotes \ {ret'.path} :
               /\ {x \in plugin'.timeouts : x.run = "sync" /\ x.path = t} = SyncTimers(t)
               /\ t \in DOMAIN plugin.quiet =>
                    (t \in DOMAIN plugin'.quiet /\ plugin'.quiet[t] = plugin.quiet[t])]_vars

\* the sync of note T is due after a burst of two notifications
C29_Witness ==
  /\ "T" \in DOMAIN plugin.quiet
  /\ plugin.quiet["T"].events = 2
  /\ \E x \in SyncTimers("T") : x.left = 0


(***************************************************************************)
(* isProcessing and the notifications of the plugin's own writes           *)
(***************************************************************************)
\* the notification the modify handler takes in this step
Delivered == plugin.modified \ plugin'.modified

\* C30: when the notification of a write of the plugin itself is delivered,
\* isProcessing is set, and the delivery sets no debounce timer.
C30_OwnNotificationsSuppressed ==
  [][ret'.op = "modify" =>
       \A e \in Delivered :
         e.by # "user" =>
           /\ plugin.isProcessing
           /\ {x \in plugin'.timeouts : x.run = "sync"}
                = {x \in plugin.timeouts : x.run = "sync"}]_vars


(***************************************************************************)
(* Live copies under arbitrary use                                         *)
(***************************************************************************)
\* scheduleTask and unscheduleTask on any line of any note
NextUse == ScheduleCommand \/ UnscheduleCommand

SpecUse == Init /\ [][NextUse]_vars

\* the notes that hold a live copy of the task outside an archive callout
LiveNotes(id) == {d \in Dates : \E i \in LinesWithId(d, id) : IsLive(docs[d][i])}

\* C34: whatever lines scheduleTask and unscheduleTask are called on, at
\* most one note holds a line with the id of the task whose marker is not
\* ">".
C34_AtMostOneLiveCopy == Cardinality(LiveNotes(TrackedId)) <= 1

(***************************************************************************)
(* Scheduling and archiving                                                *)
(***************************************************************************)
\* scheduleTask on any line of any note to any date, and archive runs
NextKeep == ScheduleCommand \/ ArchiveCommand

SpecKeep == Init /\ [][NextKeep]_vars

\* C35: under scheduleTask calls and archive runs a task that has a line
\* with its id keeps a live copy: some note holds a line with the id that
\* is not ">"-marked and not in an archive callout.
C35_LiveCopyKept ==
  (\E d \in Dates : LinesWithId(d, TrackedId) # {}) => LiveNotes(TrackedId) # {}


(***************************************************************************)
(* The lines sortByTimeBlock writes that are no tasks                      *)
(***************************************************************************)
\* C39: sortByTimeBlock keeps the content that is no task: every line of
\* the input that is not empty, no checkbox line and not in the archive
\* callout stands in the output.
C39_NoPlainLineLostByTimeBlock ==
  [][(ret'.ok /\ ret'.op = "timesort") =>
       LET doc == docs[ret'.src]
           out == docs'[ret'.src]
       IN \A i \in 1..Len(doc) :
            (doc[i].kind \in {"heading", "completed", "text"} /\ ~doc[i].q
             /\ ~InArchiveSection(doc, i)) =>
              \E j \in 1..Len(out) : out[j] = doc[i]]_vars


(***************************************************************************)
(* What scheduleAllOverdueTo leaves behind                                 *)
(***************************************************************************)
\* the overdue lines of the notes dated before targetDate, as <<date, line>>
OverdueBefore(targetDate) ==
  UNION {{<<d, i>> : i \in OverdueLines(docs[d])} : d \in {d \in files : d < targetDate}}

\* C32: after scheduleAllOverdueTo(targetDate) no note dated before
\* targetDate holds an open task line that is no calendar event: each such
\* line is marked ">" with [> targetDate], and when it carries an id the
\* note of targetDate holds a live line with that id and [< source date];
\* the notes dated after targetDate are as they were, and the count returned
\* is the number of lines marked.
C32_OverdueAllScheduled ==
  [][(ret'.ok /\ ret'.op = "bulk") =>
       LET targetDate == ret'.targetDate
       IN /\ \A d \in files : d < targetDate => OverdueLines(docs'[d]) = {}
          /\ \A p \in OverdueBefore(targetDate) :
               LET line == docs[p[1]][p[2]]
               IN /\ docs'[p[1]][p[2]] = MarkTaskAsScheduled(line, targetDate)
                  /\ ExtractId(line) # NoId =>
                       \E j \in 1..Len(docs'[targetDate]) :
                         /\ HasId(docs'[targetDate][j], ExtractId(line))
                         /\ IsLive(docs'[targetDate][j])
                         /\ HasTag(docs'[targetDate][j], "from", p[1])
          /\ \A d \in Dates : d > targetDate => docs'[d] = docs[d]
          /\ ret'.count = Cardinality(OverdueBefore(targetDate))]_vars


(***************************************************************************)
(* Bulk scheduling against scheduleTask call by call                       *)
(***************************************************************************)
\* the open top-level tasks of a note that are no calendar events
OverdueParents(doc) == {i \in OverdueLines(doc) : IsParentTask(doc[i])}

\* scheduleTask on the lines todo of one note, one call after the other:
\* r.src is the note, r.tc the target
RECURSIVE SingleTasks(_, _, _, _)
SingleTasks(todo, fromDate, toDate, r) ==
  IF todo = <<>> THEN r
  ELSE LET line == r.src[todo[1]]
       IN SingleTasks(Tail(todo), fromDate, toDate,
            [src |-> ScheduleSource(r.src, todo[1], line, toDate),
             tc |-> ScheduleTarget(r.tc, line, fromDate)])

\* the same for the notes srcs in turn
RECURSIVE SingleFiles(_, _, _)
SingleFiles(srcs, toDate, r) ==
  IF srcs = <<>> THEN r
  ELSE LET d == srcs[1]
           one == SingleTasks(Ascending(OverdueParents(r.ds[d])), d, toDate,
                              [src |-> r.ds[d], tc |-> r.tc])
       IN SingleFiles(Tail(srcs), toDate,
                      [ds |-> [r.ds EXCEPT ![d] = one.src], tc |-> one.tc])

\* C36: scheduleAllOverdueTo leaves the source notes and the target note as
\* scheduleTask does when it is called, note by note and from the top of
\* each note down, on every open top-level task of the notes dated before
\* the target.
C36_BulkAsSingleCalls ==
  [][(ret'.ok /\ ret'.op = "bulk" /\ ret'.tgt = ret'.targetDate) =>
       LET toDate == ret'.tgt
           srcs == {d \in files : d < toDate /\ OverdueLines(docs[d]) # {}}
           r == SingleFiles(Ascending(srcs), toDate, [ds |-> docs, tc |-> Content(toDate)])
       IN docs' = [r.ds EXCEPT ![toDate] = r.tc]]_vars


(***************************************************************************)
(* Writes of the target note that fail                                     *)
(***************************************************************************)
\* a call that ended with the exception of app.vault.modify(targetFile, ...)
Thrown(op) == Rejected(op, "vault.modify(targetFile) threw")

\* scheduleTask when the write of the target throws: the target note has
\* been created, the editor and the task note have not been touched yet
ScheduleTaskThrows(src, n, tgt) ==
  /\ src \in files /\ n \in 1..Len(docs[src])
  /\ IsTask(docs[src][n]) /\ ~HasTag(docs[src][n], "to", tgt)
  /\ files' = files \cup {tgt}
  /\ ret' = Thrown("schedule")
  /\ calls' = calls + 1
  /\ UNCHANGED <<docs, notes, fwd, undo>>

\* scheduleAllOverdueTo when the write of the target, the last write, throws:
\* every source note and every task note has been written by then
ScheduleAllOverdueThrows(targetDate, toDate) ==
  LET srcs == {d \in files : d < targetDate /\ OverdueLines(docs[d]) # {}}
      r == BulkFiles(Ascending(srcs), toDate,
                     [ds |-> docs, tc |-> Content(toDate), ns |-> notes, count |-> 0])
  IN /\ toDate \in {targetDate - 1, targetDate} \cap Dates
     /\ srcs # {}
     /\ files' = files \cup {toDate}
     /\ docs' = r.ds
     /\ notes' = r.ns
     /\ ret' = Thrown("bulk")
     /\ calls' = calls + 1
     /\ undo' = NoUndo
     /\ UNCHANGED fwd

ScheduleThrows ==
  /\ calls < MaxEdits
  /\ \E src \in files : \E n \in 1..Len(docs[src]), tgt \in Dates :
       tgt # src /\ ScheduleTaskThrows(src, n, tgt)
  /\ UNCHANGED plugin

BulkThrows ==
  /\ calls < MaxEdits
  /\ \E targetDate \in Dates, toDate \in Dates : ScheduleAllOverdueThrows(targetDate, toDate)
  /\ UNCHANGED plugin

NextWrite == ScheduleText \/ BulkCommand \/ ScheduleThrows \/ BulkThrows

SpecWrite == InitText /\ [][NextWrite]_vars

\* C33: when the write of the target note fails in scheduleTask or in
\* scheduleAllOverdueTo, no note has been changed: no source line is marked
\* ">" without its copy in the target.
C33_FailedWriteChangesNothing ==
  [][(ret' = Thrown("schedule") \/ ret' = Thrown("bulk")) =>
       (docs' = docs /\ notes' = notes)]_vars


(***************************************************************************)
(* Notifications of task notes and the syncs that follow them              *)
(***************************************************************************)
\* C37: no modification of a task note is dropped: a notification of a
\* task note, whatever flags are set when it is delivered, is followed by a
\* sync of that note.
C37_EveryModifySynced ==
  \A t \in TaskNotes :
    (\E e \in plugin.modified : e.path = t) ~> (ret.op = "sync" /\ ret.path = t)


(***************************************************************************)
(* The event loop comes to rest                                            *)
(***************************************************************************)
\* nothing is left to run: no flag is set, no timeout and no notification
\* is pending
Quiescent ==
  /\ ~plugin.isProcessing /\ ~plugin.taskNoteSyncing
  /\ plugin.timeouts = {} /\ plugin.modified = {}

\* C38: once the external events have ceased, the plugin comes to rest for
\* good: isProcessing and taskNoteSyncing are false, no sync timer is
\* pending and no handler is left to run, so the writes made were finitely
\* many and no flag stays set.
C38_Quiesces == <>[]Quiescent

\* all external events made, the last flag reset, and the plugin at rest
C38_Witness ==
  /\ calls = MaxEvents /\ Quiescent
  /\ ret.op = "syncDone"
  /\ docs[1][1].mk # "X" /\ docs[1][1].tags = <<Tag("id", 1)>>
  /\ notes["T"].status # CheckboxToStatus(" ")


(***************************************************************************)
(* The timer callback step by step: what runs while it awaits              *)
(***************************************************************************)
\* the callback of a debounce timer up to its first await: the entry of the
\* path is deleted, taskNoteSyncing is set, and syncSubtasksBackToSource is
\* called, which awaits the read of the task note
SyncStart ==
  \E x \in plugin.timeouts :
    /\ x.run = "sync" /\ x.left = 0
    /\ plugin' = [plugin EXCEPT !.timeouts = @ \ {x},
                                !.taskNoteSyncTimers = MapDelete(@, x.path),
                                !.quiet = MapDelete(@, x.path),
                                !.taskNoteSyncing = TRUE,
                                !.syncs = @ \cup {[path |-> x.path, at |-> "subtasks"]}]
    /\ ret' = Event("syncStart", x.path)
    /\ UNCHANGED <<files, docs, notes, calls, fwd, undo>>

\* the callback resumes: syncSubtasksBackToSource writes the source, and
\* syncStatusToSource is called, which awaits the read of the task note
SyncSubtasks ==
  \E s \in plugin.syncs :
    /\ s.at = "subtasks"
    /\ LET t == s.path
           src == notes[t].sourceFile
           synced == notes[t].ex /\ src \in files
           back == SubtasksBack(docs[src], t, notes[t].subtasks)
       IN /\ docs' = IF synced THEN [docs EXCEPT ![src] = back] ELSE docs
          /\ plugin' = [plugin EXCEPT
                          !.syncs = (@ \ {s}) \cup {[s EXCEPT !.at = "status"]},
                          !.modified = IF synced /\ back # docs[src]
                                       THEN @ \cup {Modified(DailyPath, "sync")} ELSE @]
          /\ ret' = Event("syncSubtasks", t)
          /\ UNCHANGED <<files, notes, calls, fwd, undo>>

\* the callback resumes and ends: syncStatusToSource writes the source, and
\* the finally block sets the timeout that resets taskNoteSyncing
SyncStatus ==
  \E s \in plugin.syncs :
    /\ s.at = "status"
    /\ LET t == s.path
           src == notes[t].sourceFile
           synced == notes[t].ex /\ src \in files
           after == SourceAfterStatusSync(docs[src], notes[t].taskId,
                                          StatusToCheckbox(notes[t].status))
           done == [plugin EXCEPT !.syncs = @ \ {s}]
       IN /\ docs' = IF synced THEN [docs EXCEPT ![src] = after] ELSE docs
          /\ plugin' = [SetTimeout(done, "syncDone", t, SyncingDelay) EXCEPT
                          !.modified = IF synced /\ after # docs[src]
                                       THEN @ \cup {Modified(DailyPath, "sync")} ELSE @]
          /\ ret' = Event("sync", t)
          /\ UNCHANGED <<files, notes, calls, fwd, undo>>

NextAwait ==
  \/ LeaveNotified \/ FileOpen \/ EditStatus
  \/ ModifyHandler \/ SyncStart \/ SyncSubtasks \/ SyncStatus
  \/ ResetTaskNoteSyncing \/ ResetProcessing \/ Tick

SpecAwait == InitSync /\ [][NextAwait]_vars

\* the handlers that act on notes: the callback of a debounce timer, the ICS
\* sync on file-open, processLineOnLeave
HandlerOps == {"syncStart", "fileOpen", "leave"}

\* C31: at most one sync body is in flight at any time, and while one is, up
\* to its completion, no other handler starts: not the timer callback of
\* another note, not the ICS sync on file-open, not processLineOnLeave.
C31_HandlersDoNotOverlap ==
  [][/\ Cardinality(plugin'.syncs) <= 1
     /\ plugin.syncs # {} => ret'.op \notin HandlerOps]_vars


(***************************************************************************)
(* The hover buttons of a task line and the pill of its time block         *)
(***************************************************************************)
\* The n-th line of a note is docs[d][n]: the editor (getLine, setLine)
\* numbers it n - 1, CodeMirror's doc.lineAt(pos).number numbers it from 1.
EditorLine(n) == n - 1

LineNumber(n) == EditorLine(n) + 1

\* the line of the note that editor.getLine(lineNum) reads
LineAt(lineNum) == lineNum + 1

\* TimeblockUtils.addTimeblock: the block of a checkbox line is replaced or
\* put behind the checkbox; any other line stays as it is
AddTimeblock(l, b) == IF IsTask(l) THEN [l EXCEPT !.tb = b] ELSE l

\* the click on a decoration of line n of note src that hands lineNum on
Clicked(src, n, lineNum) ==
  [src |-> src, line |-> n, lineNum |-> lineNum, at |-> calls + 1]

\* TimePickerPopup.applyTimeblock with the lineNum it was made with
ApplyTimeblock(src, lineNum, b) ==
  LET n == LineAt(lineNum)
  IN IF n \in 1..Len(docs[src])
     THEN /\ docs' = [docs EXCEPT ![src][n] = AddTimeblock(@, b)]
          /\ ret' = Call("timeblock", src, n, NoDate, docs[src][n], "Timeblock set")
          /\ calls' = calls + 1
          /\ undo' = NoUndo
          /\ UNCHANGED <<files, notes, fwd>>
     ELSE /\ ret' = Rejected("timeblock", "no such line")
          /\ calls' = calls + 1
          /\ UNCHANGED <<files, docs, notes, fwd, undo>>

\* the schedule button of the widget of a task line: buildDecorations makes
\* the widget with lineNum: line.number, and the popup calls scheduleTask
\* with it
WidgetSchedule ==
  /\ calls < MaxEdits
  /\ \E src \in files : \E n \in 1..Len(docs[src]), tgt \in Dates :
       /\ IsTask(docs[src][n]) /\ tgt # src
       /\ LET lineNum == LineNumber(n)
          IN /\ IF LineAt(lineNum) \in 1..Len(docs[src])
                THEN ScheduleTask(src, LineAt(lineNum), tgt)
                ELSE /\ ret' = Rejected("schedule", "Not a task line")
                     /\ calls' = calls + 1
                     /\ UNCHANGED <<files, docs, notes, fwd, undo>>
             /\ plugin' = [plugin EXCEPT !.widget = Clicked(src, n, lineNum)]

\* the time-block button of the widget of a task line
WidgetTimeblock ==
  /\ calls < MaxEdits
  /\ \E src \in files : \E n \in 1..Len(docs[src]), b \in 1..Len(TimeBlocks) :
       /\ IsTask(docs[src][n])
       /\ LET lineNum == LineNumber(n)
          IN /\ ApplyTimeblock(src, lineNum, b)
             /\ plugin' = [plugin EXCEPT !.widget = Clicked(src, n, lineNum)]

\* the click on the pill of a time block: data-line is line.number - 1
PillTimeblock ==
  /\ calls < MaxEdits
  /\ \E src \in files : \E n \in 1..Len(docs[src]), b \in 1..Len(TimeBlocks) :
       /\ IsTask(docs[src][n]) /\ docs[src][n].tb # 0
       /\ LET lineNum == LineNumber(n) - 1
          IN /\ ApplyTimeblock(src, lineNum, b)
             /\ plugin' = [plugin EXCEPT !.widget = Clicked(src, n, lineNum)]

NextWidget == WidgetSchedule \/ WidgetTimeblock \/ PillTimeblock

SpecWidget == InitText /\ [][NextWidget]_vars

\* C40: the line number a task line's widget hands to the schedule popup
\* and to the time-block picker, read by editor.getLine and editor.setLine,
\* is the number of the line the widget decorates, so the button acts on its
\* own line.  (The pill of a time block is no hover button: it hands
\* line.number - 1.)
C40_ButtonActsOnOwnLine ==
  [][plugin'.widget # plugin.widget /\ plugin'.widget.lineNum = LineNumber(plugin'.widget.line)
       => /\ LineAt(plugin'.widget.lineNum) = plugin'.widget.line
          /\ ret'.ok => ret'.n = plugin'.widget.line]_vars

=============================================================================
